---- MODULE Spec2Model ----
(***************************************************************************)
(* A model of the gpupgrade hub: the Server life cycle (Start / Stop), the *)
(* cache of hub-to-agent connections (AgentConns, EnsureConnsAreReady,     *)
(* closeAgentConns), the agent operations built on it (StopAgents,         *)
(* StopServices, the RestartAgents RPC) and the RestartAgents fan-out.     *)
(*                                                                         *)
(* Every goroutine that calls into the Server is a thread of the model;    *)
(* a call is a sequence of steps, one per blocking point of the code.      *)
(*                                                                         *)
(* Spec        the life cycle of a new Server: Start, Stop, AgentConns     *)
(* SpecConns   the connection cache of a hub that is up, two agent hosts   *)
(* SpecDial    AgentConns alone, three agent hosts                         *)
(* SpecAgents  StopAgents and StopServices, two agent hosts                *)
(* SpecRestart the RestartAgents handler and its goroutines                *)
(* SpecHub     every operation of a hub that is up, one agent host         *)
(* SpecPanic   RPCs whose handler panics, beside StopServices              *)
(* SpecHosts   AgentHosts on every small cluster                           *)
(*                                                                         *)
(* and of the gpupgrade command beside it:                                 *)
(*                                                                         *)
(* SpecGen     the generators of the data migration scripts                *)
(* SpecConfig  the writers and a reader of config.json                     *)
(* SpecStep    runs of gpupgrade initialize, substep by substep            *)
(* SpecPhase   runs of gpupgrade initialize and gpupgrade revert           *)
(* SpecMkdir   gpupgrade processes that start initialize at the same time  *)
(* SpecTopo    greenplum.NewCluster on every short list of segments        *)
(* SpecTmp     the temporary configuration file, written and loaded        *)
(* SpecCodec   config.Create, Config.Save and Config.Load, field by field  *)
(***************************************************************************)
EXTENDS Integers, Sequences, FiniteSets, TLC

\* ------------------------------------------------------------------ bounds

\* Calls made on one Server over a behaviour.
MaxCalls == 3

\* Goroutines calling into the Server.
Threads == {"t1", "t2", "t3"}

\* The goroutines of the life cycle specification.
LifeThreads == {"t1", "t2"}

\* In the connection specification t1 is the goroutine that runs Start.
ConnThreads == {"t2", "t3"}

\* The goroutine that serves the RestartAgents RPC; the model has the
\* goroutines and channels of one RestartAgents call at a time.
RestartThreads == {"t2"}

NoThread == "none"

\* ---------------------------------------------------------------- topology

Coordinator == -1

Seg(c, r, h) == [contentID |-> c, role |-> r, hostname |-> h]

\* greenplum.SegConfig.IsCoordinator: the coordinator has the reserved content id.
IsCoordinator(seg) == seg.contentID = Coordinator

\* Cluster.SelectSegments: the segments for which the selector returns true.
SelectSegments(c, selector) == {seg \in c : selector[seg]}

\* A selector that takes every segment.
EverySegment(c) == [seg \in c |-> TRUE]

\* excludingCoordinator, as the function from a segment to what it returns.
ExcludingCoordinator(c) == [seg \in c |-> ~IsCoordinator(seg)]

\* The keys of uniqueHosts: the hostnames of the non-coordinator segments.
AgentHostSet(c) ==
  {seg.hostname : seg \in SelectSegments(c, ExcludingCoordinator(c))}

\* All orders of a finite set: what ranging over a Go map can produce.
Perms(S) ==
  {s \in [1..Cardinality(S) -> S] : \A i, j \in 1..Cardinality(S) : i # j => s[i] # s[j]}

\* AgentHosts returns the keys of a map, in the order the range over it yields.
AgentHosts(c) == Perms(AgentHostSet(c))

\* testutils.MockCluster: a coordinator and one primary.
MockCluster == {Seg(Coordinator, "p", "mdw"), Seg(0, "p", "sdw1")}

\* Two primaries and their mirrors, spread over two hosts.
TwoHostCluster ==
  {Seg(Coordinator, "p", "mdw"),
   Seg(0, "p", "sdw1"), Seg(0, "m", "sdw2"),
   Seg(1, "p", "sdw2"), Seg(1, "m", "sdw1")}

\* Three segment hosts, one primary each.
ThreeHostCluster ==
  {Seg(Coordinator, "p", "mdw"),
   Seg(0, "p", "sdw1"), Seg(1, "p", "sdw2"), Seg(2, "p", "sdw3")}

AllHosts == {"mdw", "sdw1", "sdw2", "sdw3"}

\* ------------------------------------------------------------------- state

VARIABLES
  Source,      \* s.Source, the source cluster (its segments)
  panics,      \* the panics of handlers that have been logged
  mu,          \* s.mu: NoThread, or the thread that holds the mutex
  server,      \* s.server: "nil", "finished" (a server whose Serve is over) or the
               \* thread whose Start created the installed grpc server
  srv,         \* per thread, the grpc server its Start created:
               \* "none", "new", "serving", "stopped", "done"
  lis,         \* per thread, the listener its Start bound: "none", "open", "closed"
  stoppedNil,  \* s.stopped = nil
  tokens,      \* values buffered in the stopped channel (capacity 1)
  agentConns,  \* s.agentConns: the hostnames of the cached connections, in order
  connState,   \* per host, the connectivity state of its cached connection
  reachable,   \* per host, whether an agent answers a dial there
  op,          \* per thread, the call it is in ("idle" outside a call)
  pc,          \* per thread, its position in that call
  todo,        \* per thread, the hosts (connections) its loop has still to visit
  curr,        \* per thread, currState in closeAgentConns
  err,         \* per thread, the err local of Start or StopServices
  restartedHosts, \* per thread, restartedHosts in the RestartAgents handler
  afterStop,   \* per thread, whether its call began after a Stop() had returned
  res,         \* what the last call that returned did return, and to whom
  acRes,       \* what the last AgentConns() that returned did return
  saRes,       \* what the last StopAgents() that returned did return, whether it
               \* issued the RPCs and whether all of them came back as Closing
  calls,       \* calls begun so far
  stopReturned,\* a Stop() has returned
  dialed,      \* per host, whether AgentConns has dialed it
  firstConns,  \* how many AgentConns calls have succeeded, and what the first of
               \* them returned
  unit,        \* per host, the position of its goroutine in RestartAgents
  unitOut,     \* per host, what its goroutine met: "none", "running" (an agent
               \* answered), "close_error", "path_error", "cmd_error", "restarted"
               \* (the command that starts the agent succeeded)
  cmds,        \* per host, the ssh commands its goroutine has run
  wg,          \* the WaitGroup counter of RestartAgents
  chanCap,     \* the capacity of the two channels of RestartAgents
  errs,        \* the values buffered in the errs channel
  restartedCh, \* the values buffered in the restartedHosts channel
  raRes,       \* what the last RestartAgents (the function) returned
  genFn,       \* the data migration generator that is running: "none",
               \* "GenerateDataMigrationScripts" or "GenerateScriptsPerDatabase"
  genTodo,     \* the units its loop has still to start a goroutine for
  genPc,       \* per unit, the position of its goroutine
  genOut,      \* per unit, what the call of its goroutine returned: "none", "ok",
               \* "failed"
  genErr,      \* err, the variable of the generator that its goroutines assign to
  errChan,     \* the values buffered in errChan
  genWg,       \* the WaitGroup counter of the generator
  genRes,      \* what the last generator returned
  bars,        \* per database, its progress bar: total, current, aborted
  hostsRes,    \* what the last AgentHosts(s.Source) returned
  cfgFile,     \* config.json in the state directory: Absent, or its content
  cfgTmp,      \* the temporary file of an atomic write: Absent, or its content
  cfgPc,       \* the position of the writer of config.json
  cfgRead,     \* what the last reader of config.json found
  stRun,       \* the runs of `gpupgrade initialize` and `revert` begun so far
  stCmd,       \* the command of the run in progress: "initialize" or "revert"
  stNoHub,     \* in revert, whether it found the temporary configuration file
  stFlags,     \* the flags of the run in progress
  stPos,       \* the substep the run has come to (0: no run in progress)
  stErr,       \* st.err, the error the Step of the run holds ("" for nil)
  store,       \* the status file: per named substep, the status recorded
  store0,      \* the status file as the run in progress, or the last one, found it
  stExec,      \* the substeps whose body the run has executed
  stAsked,     \* whether the run has asked the operator and read standard input
  stRpcs,      \* the RPCs the run has sent to the hub
  stOut,       \* the substep whose body ran last in the run and what it returned
  stLast,      \* what the last run that ended returned
  hubRunning,  \* a hub process is running
  stRpc,       \* the RPC of a hub substep that waits for its reply ("none")
  stateDir,    \* the state directory: whether it exists, and the files in it
  storeOff,    \* the store of the Step is disabled
  stDeleted,   \* the run has deleted the state directory
  lateWrite,   \* the run has written a status after it deleted the directory
  mkPc,        \* per gpupgrade process, how far its initialize has come
  mkRes,       \* per gpupgrade process, what CreateStateDir returned to it
  segConfigs,  \* the list of segment records given to NewCluster
  newRes,      \* what NewCluster returned for it
  tmpArgs,     \* the gphome and port given to CreateTemporaryConfigFile
  tmpText,     \* config.json.tmp: whether it exists, and its text
  tmpConf,     \* the TemporaryConfig after LoadConfig, and what LoadConfig returned
  cfgJson,     \* config.json as the JSON object that Save encoded
  cfgLast,     \* the last call of Create, Save or Load: its arguments, whether the
               \* file was there, and the error it returned
  cfgSaved,    \* the Config that the last Save encoded
  cfgConf,     \* the Config that the last Load decoded into, after the call
  arNow,       \* the minute of the clock
  arCurrent,   \* the directory "current" of the output directory: whether it is
               \* there, and the minute of its modification time
  arArchive,   \* the minutes that name the directories under "archive"
  arFlag,      \* nonInteractive of the call of GenerateDataMigrationScripts
  arPc,        \* "idle", "prompt" while the call is in the loop of the prompt,
               \* "generate" from the nil of the prompt to the return of the call
  arRet,       \* what ArchiveDataMigrationScriptsPrompt returned
  arLine,      \* the last line that the prompt read from standard input
  arReads,     \* the number of reads of standard input in the call
  arGen,       \* whether the call started the goroutines that generate scripts
  arOut,       \* what GenerateDataMigrationScripts returned
  modeIn,      \* the value of the flag --mode, as characters
  modeRes      \* what parseMode returned for it

\* The life cycle fields of the Server.
lifeVars == <<server, srv, lis, stoppedNil, tokens>>

\* The connection cache and its history.
connVars == <<agentConns, connState, dialed, firstConns>>

\* The locals of the calls.
localVars == <<todo, curr, err, restartedHosts>>

\* What the calls returned.
resVars == <<res, acRes, saRes>>

\* The goroutines and channels of the RestartAgents call in flight.
restartVars == <<unit, unitOut, cmds, wg, chanCap, errs, restartedCh, raRes>>

\* The cluster of the hub process and its log.
procVars == <<Source, panics>>

hubVars ==
  <<procVars, mu, lifeVars, connVars, reachable, op, pc, localVars, afterStop,
    resVars, calls, stopReturned>>

\* The goroutines, the shared err and the channel of a data migration generator.
genVars == <<genFn, genTodo, genPc, genOut, genErr, errChan, genWg, genRes, bars>>

\* config.json, its writer and its reader.
cfgVars == <<cfgFile, cfgTmp, cfgPc, cfgRead>>

\* A run of `gpupgrade initialize` or `revert`: its Step, the status file, the
\* state directory and the hub process.
stepVars ==
  <<stRun, stCmd, stNoHub, stFlags, stPos, stErr, store, store0, stExec, stAsked,
    stRpcs,
    stOut, stLast, hubRunning, stRpc, stateDir, storeOff, stDeleted, lateWrite>>

\* gpupgrade processes that start initialize at the same time.
mkVars == <<mkPc, mkRes>>

\* A list of segment records and the cluster built from it.
topoVars == <<segConfigs, newRes>>

\* The temporary configuration file, its writer and its reader.
tmpVars == <<tmpArgs, tmpText, tmpConf>>

\* The calls of the config package, with the content of config.json in cfgFile.
codecVars == <<cfgJson, cfgLast, cfgSaved, cfgConf>>

\* A call of parseMode.
modeVars == <<modeIn, modeRes>>

\* A call of GenerateDataMigrationScripts with its archive prompt.
arVars ==
  <<arNow, arCurrent, arArchive, arFlag, arPc, arRet, arLine, arReads, arGen,
    arOut>>

\* The state of the command line process, and what the functions called on
\* their own returned.
cliVars == <<genVars, hostsRes, cfgVars, stepVars, mkVars, topoVars, tmpVars, codecVars, arVars, modeVars>>

\* The state of the hub process.
hubSide == <<hubVars, restartVars>>

\* What the actions of one part leave alone.
notGen == <<hubSide, hostsRes, cfgVars, stepVars, mkVars, topoVars, tmpVars, codecVars, arVars, modeVars>>

notHosts == <<hubSide, genVars, cfgVars, stepVars, mkVars, topoVars, tmpVars, codecVars, arVars, modeVars>>

notCfg == <<hubSide, genVars, hostsRes, stepVars, mkVars, topoVars, tmpVars, codecVars, arVars, modeVars>>

notStep == <<hubSide, genVars, hostsRes, cfgVars, mkVars, topoVars, tmpVars, codecVars, arVars, modeVars>>

vars == <<hubVars, restartVars, cliVars>>

\* The nil error.
NilErr == [nil |-> TRUE]

\* The databases of the source cluster and the phases that scripts are
\* generated for.
Databases == <<"postgres", "template1", "testdb">>

MigrationScriptPhases == <<"stats", "initialize", "finalize", "revert">>

DatabaseSet == {Databases[i] : i \in DOMAIN Databases}

\* Seed scripts that countSeedScripts finds for a database.
NumSeedScripts == 2

\* No progress bar.
NoBar == [total |-> 0, current |-> 0, aborted |-> FALSE]

GenUnits == {Databases[i] : i \in DOMAIN Databases}
              \cup {MigrationScriptPhases[i] : i \in DOMAIN MigrationScriptPhases}

\* The writes that the content of config.json takes.
FileBlocks == 2

\* A file that holds the first n blocks of the content v.
File(v, n) == [v |-> v, n |-> n]

\* No such file.
Absent == File("absent", 0)

\* Nothing has been read.
NoRead == File("none", 0)

\* The substeps of initialize and of revert that have a name, and so a line in
\* the status file.
Substeps ==
  {"generate_data_migration_scripts", "execute_stats_data_migration_scripts",
   "execute_initialize_data_migration_scripts", "start_hub",
   "archive_log_directories", "stop_hub_and_agents",
   "execute_revert_data_migration_scripts", "delete_master_statedir"}

\* The files of the state directory beside the status file.
TmpConfig == "config.json.tmp"

ConfigFile == "config.json"

\* No state directory.
NoDir == [exists |-> FALSE, files |-> {}]

\* The gpupgrade processes that start initialize at the same time.
Procs == {"p1", "p2", "p3"}

NoFlags == [nonInteractive |-> FALSE, stopBeforeClusterCreation |-> FALSE]

NoOut == [at |-> 0, out |-> "none"]

NoRun == [set |-> FALSE, err |-> "", by |-> "none"]

NoHosts == [set |-> FALSE, hosts |-> <<>>]

NoGen == [set |-> FALSE, fn |-> "none", ran |-> FALSE, errs |-> <<>>, ret |-> "nil"]

\* NewCluster has not been called.
NoNew == [set |-> FALSE, err |-> "", cluster |-> {}]

\* No list of segment records is at hand.
NoTopo ==
  /\ segConfigs = <<>>
  /\ newRes = NoNew

\* A greenplum.ContentToSegConfig that is nil: a map is nil or made, and m
\* holds its entries.
NilPrimaries == [nil |-> TRUE, m |-> <<>>]

\* A nil *greenplum.Cluster.
NilCluster == [nil |-> TRUE, GPHome |-> "", Primaries |-> NilPrimaries]

\* Config{}: the zero value of the hub's configuration, field by field.
ZeroConfig ==
  [LogArchiveDir |-> "", BackupDirs |-> "", Source |-> NilCluster,
   Intermediate |-> NilCluster, Target |-> NilCluster, HubPort |-> 0,
   AgentPort |-> 0, Mode |-> 0, UseHbaHostnames |-> FALSE, UpgradeID |-> 0]

\* The output directory holds no directory "current".
NoCurrent == [exists |-> FALSE, modTime |-> 0]

\* The JSON null in the place of a map, and in the place of a cluster.
NullObject == [null |-> TRUE, o |-> <<>>]

NullJson == [null |-> TRUE, GPHome |-> "", Primaries |-> NullObject]

\* There is no config.json.
NoJson ==
  [exists |-> FALSE,
   v |-> [LogArchiveDir |-> "", BackupDirs |-> "", Source |-> NullJson,
          Intermediate |-> NullJson, Target |-> NullJson, HubPort |-> 0,
          AgentPort |-> 0, Mode |-> 0, UseHbaHostnames |-> FALSE,
          UpgradeID |-> 0]]

\* No call of the config package has been made.
NoCall ==
  [op |-> "none", err |-> "", existed |-> FALSE]

\* Nothing has been saved.
NoSaved ==
  [by |-> "none", conf |-> ZeroConfig, hubPort |-> 0, sourcePort |-> 0,
   sourceGPHome |-> ""]

\* Nothing has been loaded.
NoLoaded == [set |-> FALSE, into |-> ZeroConfig, conf |-> ZeroConfig]

\* No temporary configuration file.
NoText == [exists |-> FALSE, text |-> <<>>]

\* The zero TemporaryConfig; LoadConfig has not been called.
NoConf == [set |-> FALSE, err |-> "", GPHome |-> <<>>, Port |-> 0]

\* No temporary configuration has been written or loaded.
NoTmp ==
  /\ tmpArgs = [gphome |-> <<>>, port |-> 0]
  /\ tmpText = NoText
  /\ tmpConf = NoConf

\* parseMode has not been called.
NoMode == [set |-> FALSE, mode |-> 0, err |-> ""]

\* No flag --mode is being parsed.
NoParse ==
  /\ modeIn = <<>>
  /\ modeRes = NoMode

\* The gpupgrade command has done nothing yet.
NoCommand ==
  /\ genFn = "none"
  /\ genTodo = <<>>
  /\ genPc = [u \in GenUnits |-> "none"]
  /\ genOut = [u \in GenUnits |-> "none"]
  /\ genErr = NilErr
  /\ errChan = <<>>
  /\ genWg = 0
  /\ genRes = NoGen
  /\ bars = [d \in DatabaseSet |-> NoBar]
  /\ hostsRes = NoHosts
  /\ cfgFile = Absent
  /\ cfgTmp = Absent
  /\ cfgPc = "idle"
  /\ cfgRead = NoRead
  /\ cfgJson = NoJson
  /\ cfgLast = NoCall
  /\ cfgSaved = NoSaved
  /\ cfgConf = NoLoaded
  /\ arNow = 1
  /\ arCurrent = NoCurrent
  /\ arArchive = {}
  /\ arFlag = FALSE
  /\ arPc = "idle"
  /\ arRet = "none"
  /\ arLine = <<>>
  /\ arReads = 0
  /\ arGen = FALSE
  /\ arOut = "none"
  /\ stRun = 0
  /\ stCmd = "initialize"
  /\ stNoHub = FALSE
  /\ stFlags = NoFlags
  /\ stPos = 0
  /\ stErr = ""
  /\ store = [n \in Substeps |-> "pending"]
  /\ store0 = [n \in Substeps |-> "pending"]
  /\ stExec = {}
  /\ stAsked = FALSE
  /\ stRpcs = 0
  /\ stOut = NoOut
  /\ stLast = NoRun
  /\ hubRunning = FALSE
  /\ stRpc = "none"
  /\ stateDir = NoDir
  /\ storeOff = FALSE
  /\ stDeleted = FALSE
  /\ lateWrite = FALSE
  /\ mkPc = [p \in Procs |-> "idle"]
  /\ mkRes = [p \in Procs |-> "none"]

\* The command line process has done nothing yet.
NoCli == NoCommand /\ NoTopo /\ NoTmp /\ NoParse

NoRestart == [set |-> FALSE, hosts |-> <<>>, errs |-> <<>>]

\* No RestartAgents call has been made.
NoUnits ==
  /\ unit = [h \in AllHosts |-> "none"]
  /\ unitOut = [h \in AllHosts |-> "none"]
  /\ cmds = [h \in AllHosts |-> 0]
  /\ wg = 0
  /\ chanCap = 0
  /\ errs = <<>>
  /\ restartedCh = <<>>
  /\ raRes = NoRestart

NoRes == [t |-> NoThread, op |-> "none", err |-> "", hosts |-> {}, after |-> FALSE]

\* A call's result: the error ("" for nil) and the hosts of the reply.
RetHosts(o, e, hs) == [op |-> o, err |-> e, hosts |-> hs]

Ret(o, e) == RetHosts(o, e, {})

NoConns == [t |-> NoThread, err |-> "none", conns |-> <<>>, bad |-> <<>>]

NoStop == [t |-> NoThread, err |-> "none", rpc |-> FALSE, closing |-> FALSE]

\* hub.New: the stopped channel is made with capacity 1; nothing else is set.
NewServer(cluster) ==
  /\ Source = cluster
  /\ panics = 0
  /\ mu = NoThread
  /\ server = "nil"
  /\ srv = [t \in Threads |-> "none"]
  /\ lis = [t \in Threads |-> "none"]
  /\ stoppedNil = FALSE
  /\ tokens = 0
  /\ agentConns = <<>>
  /\ connState = [h \in AllHosts |-> "NONE"]
  /\ op = [t \in Threads |-> "idle"]
  /\ pc = [t \in Threads |-> "idle"]
  /\ todo = [t \in Threads |-> <<>>]
  /\ curr = [t \in Threads |-> "NONE"]
  /\ err = [t \in Threads |-> ""]
  /\ restartedHosts = [t \in Threads |-> {}]
  /\ afterStop = [t \in Threads |-> FALSE]
  /\ res = NoRes
  /\ acRes = NoConns
  /\ saRes = NoStop
  /\ calls = 0
  /\ stopReturned = FALSE
  /\ dialed = [h \in AllHosts |-> FALSE]
  /\ firstConns = [n |-> 0, conns |-> <<>>]
  /\ NoUnits

\* A new Server beside a command line process that has done nothing yet.
New(cluster) == NewServer(cluster) /\ NoCli

Idle(t) == pc[t] = "idle" /\ calls < MaxCalls

\* A mutex that lets a goroutine in whoever holds it.
LockAnyway(m) == TRUE

\* s.mu.Lock() returns when no goroutine holds the mutex.
Lock(m) == m = NoThread

\* A call begins: thread t enters operation o at position p.
Begin(t, o, p) ==
  /\ op' = [op EXCEPT ![t] = o]
  /\ pc' = [pc EXCEPT ![t] = p]
  /\ afterStop' = [afterStop EXCEPT ![t] = stopReturned]
  /\ calls' = calls + 1

\* What thread t gets back from a call, given that the call began after (or
\* before) a Stop() had returned.
Result(t, r, after) ==
  [t |-> t, op |-> r.op, err |-> r.err, hosts |-> r.hosts, after |-> after]

\* A call returns r.
Return(t, r) ==
  /\ op' = [op EXCEPT ![t] = "idle"]
  /\ pc' = [pc EXCEPT ![t] = "idle"]
  /\ res' = Result(t, r, afterStop[t])

\* A grpc server is serving: only then does an RPC reach its handler.
Serving == \E u \in Threads : srv[u] = "serving"

\* ------------------------------------------------------------ Server.Start

\* net.Listen binds the hub port only if no open listener holds it.
PortFree == \A u \in Threads : lis[u] # "open"

\* Start, up to the mutex: net.Listen and grpc.NewServer.
StartListen(t) ==
  /\ Idle(t)
  /\ \E ok \in BOOLEAN :
       IF ok /\ PortFree
       THEN /\ Begin(t, "Start", "start_lock")
            /\ lis' = [lis EXCEPT ![t] = "open"]
            /\ srv' = [srv EXCEPT ![t] = "new"]
            \* the server this thread's earlier Start installed is another object
            /\ server' = IF server = t THEN "finished" ELSE server
            /\ err' = [err EXCEPT ![t] = ""]
            /\ UNCHANGED res
       ELSE /\ calls' = calls + 1
            /\ afterStop' = [afterStop EXCEPT ![t] = stopReturned]
            /\ res' = Result(t, Ret("Start", "listen"), stopReturned)
            /\ UNCHANGED <<op, pc, lis, srv, server, err>>
  /\ UNCHANGED <<cliVars, procVars, restartVars, mu, stoppedNil, tokens, connVars, reachable, todo, curr,
                 restartedHosts, acRes, saRes, stopReturned>>

\* A Start that ignores the gate.
NeverStopped(gateNil) == FALSE

\* if s.stopped == nil: the gate Start checks under the mutex.
HubStopped(gateNil) == gateNil

\* Start's critical section: the stopped check, then s.server and s.lis are set.
StartInstall(t) ==
  /\ pc[t] = "start_lock"
  /\ Lock(mu)
  /\ IF HubStopped(stoppedNil)
     THEN /\ Return(t, Ret("Start", "ErrHubStopped"))
          /\ UNCHANGED server
     ELSE /\ server' = t
          /\ pc' = [pc EXCEPT ![t] = "start_serve"]
          /\ UNCHANGED <<op, res>>
  /\ UNCHANGED <<cliVars, procVars, restartVars, mu, srv, lis, stoppedNil, tokens, connVars, reachable,
                 localVars, afterStop, acRes, saRes, calls, stopReturned>>

\* server.Serve(lis) is entered: a server that Stop() already stopped closes the
\* listener and returns ErrServerStopped at once.
StartServe(t) ==
  /\ pc[t] = "start_serve"
  /\ IF srv[t] = "stopped"
     THEN /\ lis' = [lis EXCEPT ![t] = "closed"]
          /\ srv' = [srv EXCEPT ![t] = "done"]
          /\ err' = [err EXCEPT ![t] = "serve"]
          /\ pc' = [pc EXCEPT ![t] = "start_signal"]
     ELSE /\ srv' = [srv EXCEPT ![t] = "serving"]
          /\ pc' = [pc EXCEPT ![t] = "start_serving"]
          /\ UNCHANGED <<lis, err>>
  /\ UNCHANGED <<cliVars, procVars, restartVars, mu, server, stoppedNil, tokens, connVars, reachable, op,
                 todo, curr, restartedHosts, afterStop, resVars, calls, stopReturned>>

\* Serve returns nil once the server has been stopped.
ServeReturn(t) ==
  /\ pc[t] = "start_serving"
  /\ srv[t] = "stopped"
  /\ srv' = [srv EXCEPT ![t] = "done"]
  /\ pc' = [pc EXCEPT ![t] = "start_signal"]
  /\ UNCHANGED <<cliVars, procVars, restartVars, mu, server, lis, stoppedNil, tokens, connVars, reachable,
                 op, localVars, afterStop, resVars, calls, stopReturned>>

\* Serve fails by itself (Accept fails): it closes the listener and returns the error.
ServeFail(t) ==
  /\ pc[t] = "start_serving"
  /\ srv[t] = "serving"
  /\ srv' = [srv EXCEPT ![t] = "done"]
  /\ lis' = [lis EXCEPT ![t] = "closed"]
  /\ err' = [err EXCEPT ![t] = "serve"]
  /\ pc' = [pc EXCEPT ![t] = "start_signal"]
  /\ UNCHANGED <<cliVars, procVars, restartVars, mu, server, stoppedNil, tokens, connVars, reachable, op,
                 todo, curr, restartedHosts, afterStop, resVars, calls, stopReturned>>

\* s.stopped <- struct{}{}: s.stopped is read; a nil channel blocks for ever, a
\* full one until a value is taken out, otherwise the value is buffered.
StartSignal(t) ==
  /\ pc[t] = "start_signal"
  /\ IF stoppedNil
     THEN /\ pc' = [pc EXCEPT ![t] = "start_send_nil"]
          /\ UNCHANGED <<op, res, tokens>>
     ELSE IF tokens = 0
          THEN /\ tokens' = 1
               /\ Return(t, Ret("Start", err[t]))
          ELSE /\ pc' = [pc EXCEPT ![t] = "start_send_full"]
               /\ UNCHANGED <<op, res, tokens>>
  /\ UNCHANGED <<cliVars, procVars, restartVars, mu, server, srv, lis, stoppedNil, connVars, reachable,
                 localVars, afterStop, acRes, saRes, calls, stopReturned>>

\* The send that found the channel full completes when the buffer has room.
StartSendFull(t) ==
  /\ pc[t] = "start_send_full"
  /\ tokens = 0
  /\ tokens' = 1
  /\ Return(t, Ret("Start", err[t]))
  /\ UNCHANGED <<cliVars, procVars, restartVars, mu, server, srv, lis, stoppedNil, connVars, reachable,
                 localVars, afterStop, acRes, saRes, calls, stopReturned>>

\* A listener nothing refers to any more is closed when its finalizer runs.
FinalizeListener(t) ==
  /\ pc[t] = "idle"
  /\ lis[t] = "open"
  /\ lis' = [lis EXCEPT ![t] = "closed"]
  /\ UNCHANGED <<cliVars, procVars, restartVars, mu, server, srv, stoppedNil, tokens, connVars, reachable,
                 op, pc, localVars, afterStop, resVars, calls, stopReturned>>

\* ------------------------------------------------------------- Server.Stop

\* connectivity.WaitForStateChange(ctx, source) returns once the state is not source.
WaitForStateChange(state, source) == state # source

\* Stop(closeAgentConns) is called: the thread goes for the mutex.
StopBegin(t) ==
  /\ Idle(t)
  /\ \E closeConns \in BOOLEAN :
       Begin(t, IF closeConns THEN "Stop(true)" ELSE "Stop(false)", "stop_lock")
  /\ UNCHANGED <<cliVars, procVars, restartVars, mu, lifeVars, connVars, reachable, localVars, resVars,
                 stopReturned>>

\* s.mu.Lock() in Stop; closeAgentConns ranges over s.agentConns.
StopLock(t) ==
  /\ pc[t] = "stop_lock"
  /\ Lock(mu)
  /\ mu' = t
  /\ IF op[t] = "Stop(true)"
     THEN /\ todo' = [todo EXCEPT ![t] = agentConns]
          /\ pc' = [pc EXCEPT ![t] = "stop_close"]
     ELSE /\ pc' = [pc EXCEPT ![t] = "stop_server"]
          /\ UNCHANGED todo
  /\ UNCHANGED <<cliVars, procVars, restartVars, lifeVars, connVars, reachable, op, curr, err,
                 restartedHosts, afterStop, resVars, calls, stopReturned>>

\* closeAgentConns, one connection: GetState, then Close.
CloseConn(t) ==
  /\ pc[t] = "stop_close"
  /\ IF todo[t] = <<>>
     THEN /\ pc' = [pc EXCEPT ![t] = "stop_server"]
          /\ UNCHANGED <<curr, connState>>
     ELSE /\ curr' = [curr EXCEPT ![t] = connState[Head(todo[t])]]
          /\ connState' = [connState EXCEPT ![Head(todo[t])] = "SHUTDOWN"]
          /\ pc' = [pc EXCEPT ![t] = "stop_wait"]
  /\ UNCHANGED <<cliVars, procVars, restartVars, mu, lifeVars, agentConns, dialed, firstConns, reachable,
                 op, todo, err, restartedHosts, afterStop, resVars, calls,
                 stopReturned>>

\* closeAgentConns, one connection: WaitForStateChange(context.Background(), currState).
CloseWait(t) ==
  /\ pc[t] = "stop_wait"
  /\ WaitForStateChange(connState[Head(todo[t])], curr[t])
  /\ todo' = [todo EXCEPT ![t] = Tail(todo[t])]
  /\ curr' = [curr EXCEPT ![t] = "NONE"]
  /\ pc' = [pc EXCEPT ![t] = "stop_close"]
  /\ UNCHANGED <<cliVars, procVars, restartVars, mu, lifeVars, connVars, reachable, op, err,
                 restartedHosts, afterStop, resVars, calls, stopReturned>>

\* A StopServices that fails when StopAgents did.
StopServicesFatal(stopAgentsErr) == stopAgentsErr

\* The error StopServices returns: the error of StopAgents is logged, and nil is
\* returned beside the reply.
StopServicesReply(stopAgentsErr) == ""

\* Stop returns (the deferred Unlock runs); StopServices then returns its reply.
StopReturn(t) ==
  /\ mu' = NoThread
  /\ stopReturned' = TRUE
  /\ Return(t, Ret(op[t], IF op[t] = "StopServices"
                          THEN StopServicesReply(err[t])
                          ELSE ""))
  /\ err' = [err EXCEPT ![t] = ""]

\* if s.server != nil { s.server.Stop() ...; otherwise s.stopped = nil and return.
\* grpc's Stop closes the listeners the server serves on and makes Serve return.
StopServer(t) ==
  /\ pc[t] = "stop_server"
  /\ IF server = "nil"
     THEN /\ stoppedNil' = TRUE
          /\ StopReturn(t)
          /\ UNCHANGED <<srv, lis>>
     ELSE /\ pc' = [pc EXCEPT ![t] = "stop_recv"]
          /\ IF server \in Threads /\ srv[server] \in {"new", "serving"}
             THEN /\ srv' = [srv EXCEPT ![server] = "stopped"]
                  /\ lis' = IF srv[server] = "serving"
                            THEN [lis EXCEPT ![server] = "closed"]
                            ELSE lis
             ELSE UNCHANGED <<srv, lis>>
          /\ UNCHANGED <<mu, stopReturned, op, res, stoppedNil, err>>
  /\ UNCHANGED <<cliVars, procVars, restartVars, server, tokens, connVars, reachable, todo, curr,
                 restartedHosts, afterStop, acRes, saRes, calls>>

\* <-s.stopped, then s.stopped = nil. A receive from a nil channel never completes.
StopRecv(t) ==
  /\ pc[t] = "stop_recv"
  /\ ~stoppedNil
  /\ tokens > 0
  /\ tokens' = tokens - 1
  /\ stoppedNil' = TRUE
  /\ StopReturn(t)
  /\ UNCHANGED <<cliVars, procVars, restartVars, server, srv, lis, connVars, reachable, todo,
                 curr, restartedHosts, afterStop, acRes, saRes, calls>>

\* ------------------------------------------------------- Server.AgentConns

\* An EnsureConnsAreReady that stops at the first connection that is not Ready.
FirstNotReady(conns, state) ==
  IF \E i \in DOMAIN conns : state[conns[i]] # "READY"
  THEN <<conns[CHOOSE i \in DOMAIN conns :
                 /\ state[conns[i]] # "READY"
                 /\ \A j \in 1..(i - 1) : state[conns[j]] = "READY"]>>
  ELSE <<>>

\* EnsureConnsAreReady: the hostnames of the connections that are not Ready, in
\* the order of agentConns; the call fails when there is one.
RECURSIVE EnsureConnsAreReady(_, _)
EnsureConnsAreReady(conns, state) ==
  IF conns = <<>>
  THEN <<>>
  ELSE IF state[Head(conns)] # "READY"
       THEN <<Head(conns)>> \o EnsureConnsAreReady(Tail(conns), state)
       ELSE EnsureConnsAreReady(Tail(conns), state)

\* s.grpcDialer with grpc.WithBlock and the DialTimeout context: it returns a
\* connection only if the agent answers before the timeout.
grpcDialer(host) == reachable[host]

ConnsOk(conns) == [err |-> "", conns |-> conns, bad |-> <<>>]

ConnsErr(e, hosts) == [err |-> e, conns |-> <<>>, bad |-> hosts]

\* AgentConns returns r; its caller (StopAgents, StopServices, the RestartAgents
\* handler) goes on with it.
ACReturn(t, r) ==
  /\ acRes' = [t |-> t, err |-> r.err, conns |-> r.conns, bad |-> r.bad]
  /\ firstConns' = IF r.err = ""
                   THEN [n |-> firstConns.n + 1,
                         conns |-> IF firstConns.n = 0 THEN r.conns ELSE firstConns.conns]
                   ELSE firstConns
  /\ restartedHosts' = [restartedHosts EXCEPT ![t] = {}]
  \* err := s.StopAgents() in StopServices
  /\ err' = [err EXCEPT ![t] = IF op[t] = "StopServices" THEN r.err ELSE @]
  /\ saRes' = IF op[t] \in {"StopAgents", "StopServices"} /\ r.err # ""
              THEN [t |-> t, err |-> r.err, rpc |-> FALSE, closing |-> FALSE]
              ELSE saRes
  /\ CASE op[t] = "AgentConns" -> Return(t, Ret("AgentConns", r.err))
       [] op[t] = "StopAgents" ->
            IF r.err # ""
            THEN Return(t, Ret("StopAgents", r.err))
            ELSE /\ pc' = [pc EXCEPT ![t] = "sa_rpc"]
                 /\ UNCHANGED <<op, res>>
       [] op[t] = "StopServices" ->
            \* the error of StopAgents is logged; the deferred Stop(false) runs
            /\ pc' = [pc EXCEPT ![t] = IF r.err # "" THEN "stop_lock" ELSE "sa_rpc"]
            /\ UNCHANGED <<op, res>>
       [] op[t] = "RestartAgents" ->
            Return(t, IF r.err # ""
                      THEN Ret("RestartAgents", "ensuring agent connections are ready")
                      ELSE RetHosts("RestartAgents", "", restartedHosts[t]))

\* if s.agentConns != nil: a connection set is cached.
Cached(conns) == conns # <<>>

\* AgentConns() is called: the thread goes for the mutex.
ACBegin(t) ==
  /\ Idle(t)
  /\ Begin(t, "AgentConns", "ac_lock")
  /\ UNCHANGED <<cliVars, procVars, restartVars, mu, lifeVars, connVars, reachable, localVars, resVars,
                 stopReturned>>

\* s.mu.Lock(); a cached set is checked and returned, otherwise the hosts to dial
\* are taken from AgentHosts(s.Source).
ACLock(t) ==
  /\ pc[t] = "ac_lock"
  /\ Lock(mu)
  /\ IF Cached(agentConns)
     THEN /\ ACReturn(t, LET bad == EnsureConnsAreReady(agentConns, connState)
                         IN  IF bad # <<>>
                             THEN ConnsErr("not ready", bad)
                             ELSE ConnsOk(agentConns))
          /\ UNCHANGED <<mu, todo>>
     ELSE \E hostnames \in AgentHosts(Source) :
            IF hostnames = <<>>
            THEN /\ ACReturn(t, ConnsOk(agentConns))
                 /\ UNCHANGED <<mu, todo>>
            ELSE /\ mu' = t
                 /\ todo' = [todo EXCEPT ![t] = hostnames]
                 /\ pc' = [pc EXCEPT ![t] = "ac_dial"]
                 /\ UNCHANGED <<op, resVars, firstConns, restartedHosts, err>>
  /\ UNCHANGED <<cliVars, procVars, restartVars, lifeVars, agentConns, connState, dialed,
                 reachable, curr, afterStop, calls, stopReturned>>

\* One turn of the dial loop: the connection is appended, or the call returns
\* the dial error (the deferred Unlock runs).
ACDial(t) ==
  /\ pc[t] = "ac_dial"
  /\ LET host == Head(todo[t]) IN
       /\ dialed' = [dialed EXCEPT ![host] = TRUE]
       /\ IF grpcDialer(host)
          THEN /\ agentConns' = Append(agentConns, host)
               /\ connState' = [connState EXCEPT ![host] = "READY"]
               /\ todo' = [todo EXCEPT ![t] = Tail(todo[t])]
               /\ IF Tail(todo[t]) = <<>>
                  THEN /\ mu' = NoThread
                       /\ ACReturn(t, ConnsOk(Append(agentConns, host)))
                  ELSE UNCHANGED <<mu, op, pc, resVars, firstConns, restartedHosts, err>>
          ELSE /\ mu' = NoThread
               /\ todo' = [todo EXCEPT ![t] = <<>>]
               /\ ACReturn(t, ConnsErr("agent connections", <<host>>))
               /\ UNCHANGED <<agentConns, connState>>
  /\ UNCHANGED <<cliVars, procVars, restartVars, lifeVars, reachable, curr, afterStop, calls,
                 stopReturned>>

\* ------------------------------------------------------- Server.StopAgents

Range(s) == {s[i] : i \in DOMAIN s}

Reply == [ok |-> TRUE, code |-> "OK", msg |-> ""]

Status(c, m) == [ok |-> FALSE, code |-> c, msg |-> m]

\* The status of an RPC whose agent went away while it was answering.
Closing == Status("Unavailable", "transport is closing")

\* What a StopAgent RPC can come back with.
RpcOutcomes ==
  {Reply,
   Closing,
   Status("Unavailable", "connection refused"),
   Status("Unknown", "transport is closing")}

\* A request closure that takes any Unavailable status, or any status that
\* says "transport is closing", for an agent that went away.
requestEither(o) ==
  IF o.ok
  THEN "failed to stop agent on host"
  ELSE IF o.code # "Unavailable" /\ o.msg # "transport is closing"
       THEN "failed to stop agent on host: wrapped"
       ELSE "nil"

\* The request closure of StopAgents: the error it returns for one agent.
request(o) ==
  IF o.ok
  THEN "failed to stop agent on host"
  ELSE IF o.code # "Unavailable" \/ o.msg # "transport is closing"
       THEN "failed to stop agent on host: wrapped"
       ELSE "nil"

\* ExecuteRPC runs the request against every connection concurrently, waits for
\* all of them and returns their errors; here, the hosts whose request failed.
ExecuteRPC(conns, out) == {h \in Range(conns) : request(out[h]) # "nil"}

\* StopAgents() is called; it starts with AgentConns().
SABegin(t) ==
  /\ Idle(t)
  /\ Begin(t, "StopAgents", "ac_lock")
  /\ UNCHANGED <<cliVars, procVars, restartVars, mu, lifeVars, connVars, reachable, localVars, resVars,
                 stopReturned>>

\* ExecuteRPC(s.agentConns, request): every agent answers in some way.
SARpc(t) ==
  /\ pc[t] = "sa_rpc"
  /\ \E out \in [Range(agentConns) -> RpcOutcomes] :
       LET failed == ExecuteRPC(agentConns, out)
           e == IF failed = {} THEN "" ELSE "stop agents"
       IN  /\ saRes' = [t |-> t, err |-> e, rpc |-> TRUE,
                         closing |-> \A h \in Range(agentConns) : out[h] = Closing]
           \* err := s.StopAgents() in StopServices
           /\ err' = [err EXCEPT ![t] = IF op[t] = "StopServices" THEN e ELSE @]
           /\ IF op[t] = "StopAgents"
              THEN Return(t, RetHosts("StopAgents", e, failed))
              ELSE /\ pc' = [pc EXCEPT ![t] = "stop_lock"]
                   /\ UNCHANGED <<op, res>>
  /\ UNCHANGED <<cliVars, procVars, restartVars, mu, lifeVars, connVars, reachable, todo, curr,
                 restartedHosts, afterStop, acRes, calls, stopReturned>>

\* ----------------------------------------------------- Server.StopServices

\* The StopServices handler: StopAgents, then the deferred Stop(false).
SSBegin(t) ==
  /\ Idle(t)
  /\ Serving
  /\ Begin(t, "StopServices", "ac_lock")
  /\ UNCHANGED <<cliVars, procVars, restartVars, mu, lifeVars, connVars, reachable, localVars, resVars,
                 stopReturned>>

\* ------------------------------------------------------- the interceptor

\* logger.WritePanics(), deferred by the interceptor: it logs the panic of the
\* handler and stops it there.
WritePanics(panicking) == [logged |-> panicking, recovered |-> panicking]

\* What the interceptor returns when its deferred call has recovered a panic:
\* `return handler(ctx, req)` was never completed and the deferred call cannot
\* reach the named results, so they are what they were at entry, (nil, nil).
InterceptorErr(recovered) == ""

\* An RPC whose handler panics: the interceptor runs the handler, the deferred
\* WritePanics runs, the interceptor returns to grpc.
HandlerPanic(t) ==
  /\ Idle(t)
  /\ Serving
  /\ LET w == WritePanics(TRUE) IN
       /\ w.recovered
       /\ panics' = IF w.logged THEN panics + 1 ELSE panics
       /\ res' = Result(t, Ret("panic", InterceptorErr(w.recovered)), stopReturned)
  /\ calls' = calls + 1
  /\ UNCHANGED <<cliVars, Source, restartVars, mu, lifeVars, connVars, reachable, op, pc,
                 localVars, afterStop, acRes, saRes, stopReturned>>

\* ---------------------------------------------------- Server.RestartAgents

\* Channels that hold one value, whatever the number of hosts.
ChanCapOne(hostnames) == IF hostnames = <<>> THEN 0 ELSE 1

\* make(chan string, len(hostnames)), make(chan error, len(hostnames)).
ChanCap(hostnames) == Len(hostnames)

\* The error a goroutine of RestartAgents sends, with the host it comes from.
HostErr(h) == [host |-> h]

\* A goroutine of RestartAgents ends: the deferred wg.Done() runs.
UnitDone(h) ==
  /\ unit' = [unit EXCEPT ![h] = "done"]
  /\ wg' = wg - 1

\* The RestartAgents handler is called; it calls RestartAgents with
\* AgentHosts(s.Source), which makes the two channels.
RABegin(t) ==
  /\ Idle(t)
  /\ Serving
  /\ Begin(t, "RestartAgents", "ra_spawn")
  /\ \E hostnames \in AgentHosts(Source) :
       /\ todo' = [todo EXCEPT ![t] = hostnames]
       /\ chanCap' = ChanCap(hostnames)
  /\ unit' = [h \in AllHosts |-> "none"]
  /\ unitOut' = [h \in AllHosts |-> "none"]
  /\ cmds' = [h \in AllHosts |-> 0]
  /\ wg' = 0
  /\ errs' = <<>>
  /\ restartedCh' = <<>>
  /\ UNCHANGED <<cliVars, procVars, raRes, mu, lifeVars, connVars, reachable, curr, err,
                 restartedHosts, resVars, stopReturned>>

\* One turn of the loop over hostnames: wg.Add(1) and the go statement.
RASpawn(t) ==
  /\ pc[t] = "ra_spawn"
  /\ IF todo[t] = <<>>
     THEN /\ pc' = [pc EXCEPT ![t] = "ra_wait"]
          /\ UNCHANGED <<todo, wg, unit>>
     ELSE /\ wg' = wg + 1
          /\ unit' = [unit EXCEPT ![Head(todo[t])] = "dial"]
          /\ todo' = [todo EXCEPT ![t] = Tail(todo[t])]
          /\ UNCHANGED pc
  /\ UNCHANGED <<cliVars, procVars, unitOut, cmds, chanCap, errs, restartedCh, raRes, mu, lifeVars,
                 connVars, reachable, op, curr, err, restartedHosts, afterStop,
                 resVars, calls, stopReturned>>

\* A goroutine dials its host: an agent that answers is left alone (the probe
\* connection is closed), otherwise the goroutine goes on to start one.
UnitDial(h) ==
  /\ unit[h] = "dial"
  /\ IF reachable[h]
     THEN \E closeOk \in BOOLEAN :
            IF closeOk
            THEN /\ UnitDone(h)
                 /\ unitOut' = [unitOut EXCEPT ![h] = "running"]
            ELSE /\ unit' = [unit EXCEPT ![h] = "send_err"]
                 /\ unitOut' = [unitOut EXCEPT ![h] = "close_error"]
                 /\ UNCHANGED wg
     ELSE /\ unit' = [unit EXCEPT ![h] = "start"]
          /\ UNCHANGED <<unitOut, wg>>
  /\ UNCHANGED <<cliVars, procVars, cmds, chanCap, errs, restartedCh, raRes, mu, lifeVars,
                 connVars, reachable, op, pc, localVars, afterStop, resVars, calls,
                 stopReturned>>

\* A goroutine that reports its host as restarted whatever the command did.
StartIgnoringCmd(pathOk, cmdOk) ==
  IF ~pathOk THEN "send_err" ELSE "send_host"

\* What the goroutine sends after GetGpupgradePath and cmd.Output(): an error if
\* either failed, its host otherwise.
StartOutcome(pathOk, cmdOk) ==
  IF ~pathOk
  THEN "send_err"
  ELSE IF ~cmdOk THEN "send_err" ELSE "send_host"

\* utils.GetGpupgradePath() and the ssh command that starts the agent; the
\* command is only run when the path was found.
UnitStart(h) ==
  /\ unit[h] = "start"
  /\ \E pathOk, cmdOk \in BOOLEAN :
       /\ unit' = [unit EXCEPT ![h] = StartOutcome(pathOk, cmdOk)]
       /\ unitOut' = [unitOut EXCEPT ![h] =
            IF ~pathOk THEN "path_error"
            ELSE IF ~cmdOk THEN "cmd_error" ELSE "restarted"]
       /\ cmds' = [cmds EXCEPT ![h] = IF pathOk THEN @ + 1 ELSE @]
       /\ reachable' = [reachable EXCEPT ![h] = @ \/ (pathOk /\ cmdOk)]
  /\ UNCHANGED <<cliVars, procVars, wg, chanCap, errs, restartedCh, raRes, mu, lifeVars,
                 connVars, op, pc, localVars, afterStop, resVars, calls,
                 stopReturned>>

\* errs <- err or restartedHosts <- host: the send completes when the channel
\* has room, and the goroutine returns.
UnitSend(h) ==
  /\ unit[h] \in {"send_err", "send_host"}
  /\ IF unit[h] = "send_host"
     THEN /\ Len(restartedCh) < chanCap
          /\ restartedCh' = Append(restartedCh, h)
          /\ UNCHANGED errs
     ELSE /\ Len(errs) < chanCap
          /\ errs' = Append(errs, HostErr(h))
          /\ UNCHANGED restartedCh
  /\ UnitDone(h)
  /\ UNCHANGED <<cliVars, procVars, unitOut, cmds, chanCap, raRes, mu, lifeVars, connVars,
                 reachable, op, pc, localVars, afterStop, resVars, calls,
                 stopReturned>>

\* errorlist.Append(err, e): the aggregate holds every error appended to it; a
\* nil error adds nothing.
ErrorlistAppend(list, e) == IF e = NilErr THEN list ELSE Append(list, e)

\* Ranging over the closed channel: its values, appended one by one.
RECURSIVE Drain(_, _)
Drain(list, ch) ==
  IF ch = <<>> THEN list ELSE Drain(ErrorlistAppend(list, Head(ch)), Tail(ch))

\* wg.Wait() returns; the channels are closed and drained and RestartAgents
\* returns (hosts, err). On an error the handler returns an empty reply with it,
\* otherwise it goes on with AgentConns().
RAWait(t) ==
  /\ pc[t] = "ra_wait"
  /\ wg = 0
  /\ raRes' = [set |-> TRUE, hosts |-> restartedCh, errs |-> Drain(<<>>, errs)]
  /\ errs' = <<>>
  /\ restartedCh' = <<>>
  /\ IF Drain(<<>>, errs) # <<>>
     THEN /\ Return(t, Ret("RestartAgents", "restart agents"))
          /\ UNCHANGED restartedHosts
     ELSE /\ restartedHosts' = [restartedHosts EXCEPT ![t] = Range(restartedCh)]
          /\ pc' = [pc EXCEPT ![t] = "ac_lock"]
          /\ UNCHANGED <<op, res>>
  \* the goroutines are gone
  /\ unit' = [h \in AllHosts |-> "none"]
  /\ unitOut' = [h \in AllHosts |-> "none"]
  /\ cmds' = [h \in AllHosts |-> 0]
  /\ chanCap' = 0
  /\ UNCHANGED <<cliVars, procVars, wg, mu, lifeVars, connVars, reachable, todo, curr, err,
                 afterStop, acRes, saRes, calls, stopReturned>>

\* ------------------------------------------------------------ environment

\* An agent goes away or comes (back) up.
AgentChange(h) ==
  /\ h \in AgentHostSet(Source)
  /\ reachable' = [reachable EXCEPT ![h] = ~reachable[h]]
  /\ UNCHANGED <<cliVars, procVars, restartVars, mu, lifeVars, connVars, op, pc, localVars, afterStop,
                 resVars, calls, stopReturned>>

\* The transport of an open connection breaks or recovers.
ConnChange(h) ==
  /\ connState[h] \in {"READY", "TRANSIENT_FAILURE"}
  /\ connState' = [connState EXCEPT
       ![h] = IF connState[h] = "READY" THEN "TRANSIENT_FAILURE" ELSE "READY"]
  /\ UNCHANGED <<cliVars, procVars, restartVars, mu, lifeVars, agentConns, dialed, firstConns, reachable,
                 op, pc, localVars, afterStop, resVars, calls, stopReturned>>

\* ----------------------------------------------------------- specification

\* The life cycle of a new Server whose cluster has one agent host: Start and
\* Stop in every interleaving, with AgentConns and StopServices beside them.
Init ==
  /\ New(MockCluster)
  /\ reachable \in [AllHosts -> BOOLEAN]
  /\ \A h \in AllHosts \ AgentHostSet(Source) : reachable[h] = FALSE

Next ==
  \/ \E t \in LifeThreads : StartListen(t)
  \/ \E t \in LifeThreads : StartInstall(t)
  \/ \E t \in LifeThreads : StartServe(t)
  \/ \E t \in LifeThreads : ServeReturn(t)
  \/ \E t \in LifeThreads : ServeFail(t)
  \/ \E t \in LifeThreads : StartSignal(t)
  \/ \E t \in LifeThreads : StartSendFull(t)
  \/ \E t \in LifeThreads : FinalizeListener(t)
  \/ \E t \in LifeThreads : StopBegin(t)
  \/ \E t \in LifeThreads : StopLock(t)
  \/ \E t \in LifeThreads : CloseConn(t)
  \/ \E t \in LifeThreads : CloseWait(t)
  \/ \E t \in LifeThreads : StopServer(t)
  \/ \E t \in LifeThreads : StopRecv(t)
  \/ \E t \in LifeThreads : ACBegin(t)
  \/ \E t \in LifeThreads : ACLock(t)
  \/ \E t \in LifeThreads : ACDial(t)
  \/ \E t \in LifeThreads : SSBegin(t)
  \/ \E t \in LifeThreads : SARpc(t)
  \/ \E h \in AllHosts : AgentChange(h)
  \/ \E h \in AllHosts : ConnChange(h)

Spec == Init /\ [][Next]_vars

\* A hub that is up: t1 is in Start and its grpc server is serving.
HubUp(cluster) ==
  /\ Source = cluster
  /\ panics = 0
  /\ mu = NoThread
  /\ server = "t1"
  /\ srv = [t \in Threads |-> IF t = "t1" THEN "serving" ELSE "none"]
  /\ lis = [t \in Threads |-> IF t = "t1" THEN "open" ELSE "none"]
  /\ stoppedNil = FALSE
  /\ tokens = 0
  /\ agentConns = <<>>
  /\ connState = [h \in AllHosts |-> "NONE"]
  /\ op = [t \in Threads |-> IF t = "t1" THEN "Start" ELSE "idle"]
  /\ pc = [t \in Threads |-> IF t = "t1" THEN "start_serving" ELSE "idle"]
  /\ todo = [t \in Threads |-> <<>>]
  /\ curr = [t \in Threads |-> "NONE"]
  /\ err = [t \in Threads |-> ""]
  /\ restartedHosts = [t \in Threads |-> {}]
  /\ afterStop = [t \in Threads |-> FALSE]
  /\ res = NoRes
  /\ acRes = NoConns
  /\ saRes = NoStop
  /\ calls = 0
  /\ stopReturned = FALSE
  /\ dialed = [h \in AllHosts |-> FALSE]
  /\ firstConns = [n |-> 0, conns |-> <<>>]
  /\ NoUnits
  /\ NoCli

\* The agents of the cluster answer or not; hosts without an agent never do.
Agents ==
  /\ reachable \in [AllHosts -> BOOLEAN]
  /\ \A h \in AllHosts \ AgentHostSet(Source) : reachable[h] = FALSE

\* The connection cache of a hub that is up, on a cluster with two agent hosts:
\* AgentConns and Stop from two goroutines.
InitConns == HubUp(TwoHostCluster) /\ Agents

NextConns ==
  \/ ServeReturn("t1")
  \/ StartSignal("t1")
  \/ \E t \in ConnThreads : StopBegin(t)
  \/ \E t \in ConnThreads : StopLock(t)
  \/ \E t \in ConnThreads : CloseConn(t)
  \/ \E t \in ConnThreads : CloseWait(t)
  \/ \E t \in ConnThreads : StopServer(t)
  \/ \E t \in ConnThreads : StopRecv(t)
  \/ \E t \in ConnThreads : ACBegin(t)
  \/ \E t \in ConnThreads : ACLock(t)
  \/ \E t \in ConnThreads : ACDial(t)
  \/ \E h \in AllHosts : AgentChange(h)
  \/ \E h \in AllHosts : ConnChange(h)

SpecConns == InitConns /\ [][NextConns]_vars

\* AgentConns alone, on a cluster with three agent hosts.
InitDial == HubUp(ThreeHostCluster) /\ Agents

NextDial ==
  \/ \E t \in ConnThreads : ACBegin(t)
  \/ \E t \in ConnThreads : ACLock(t)
  \/ \E t \in ConnThreads : ACDial(t)
  \/ \E h \in AllHosts : AgentChange(h)
  \/ \E h \in AllHosts : ConnChange(h)

SpecDial == InitDial /\ [][NextDial]_vars

\* StopAgents and StopServices on a hub that is up.
InitAgents == HubUp(TwoHostCluster) /\ Agents

NextAgents ==
  \/ ServeReturn("t1")
  \/ StartSignal("t1")
  \/ \E t \in ConnThreads : SABegin(t)
  \/ \E t \in ConnThreads : SSBegin(t)
  \/ \E t \in ConnThreads : ACLock(t)
  \/ \E t \in ConnThreads : ACDial(t)
  \/ \E t \in ConnThreads : SARpc(t)
  \/ \E t \in ConnThreads : StopLock(t)
  \/ \E t \in ConnThreads : StopServer(t)
  \/ \E t \in ConnThreads : StopRecv(t)
  \/ \E h \in AllHosts : AgentChange(h)
  \/ \E h \in AllHosts : ConnChange(h)

SpecAgents == InitAgents /\ [][NextAgents]_vars

\* The RestartAgents handler of a hub that is up, with its goroutines.
InitRestart == HubUp(TwoHostCluster) /\ Agents

NextRestart ==
  \/ \E t \in RestartThreads : RABegin(t)
  \/ \E t \in RestartThreads : RASpawn(t)
  \/ \E h \in AllHosts : UnitDial(h)
  \/ \E h \in AllHosts : UnitStart(h)
  \/ \E h \in AllHosts : UnitSend(h)
  \/ \E t \in RestartThreads : RAWait(t)
  \/ \E t \in RestartThreads : ACLock(t)
  \/ \E t \in RestartThreads : ACDial(t)
  \/ \E h \in AllHosts : AgentChange(h)
  \/ \E h \in AllHosts : ConnChange(h)

SpecRestart == InitRestart /\ [][NextRestart]_vars

\* Every operation of a hub that is up, on a cluster with one agent host.
InitHub == HubUp(MockCluster) /\ Agents

NextHub ==
  \/ ServeReturn("t1")
  \/ StartSignal("t1")
  \/ \E t \in ConnThreads : StopBegin(t)
  \/ \E t \in ConnThreads : StopLock(t)
  \/ \E t \in ConnThreads : CloseConn(t)
  \/ \E t \in ConnThreads : CloseWait(t)
  \/ \E t \in ConnThreads : StopServer(t)
  \/ \E t \in ConnThreads : StopRecv(t)
  \/ \E t \in ConnThreads : ACBegin(t)
  \/ \E t \in ConnThreads : ACLock(t)
  \/ \E t \in ConnThreads : ACDial(t)
  \/ \E t \in ConnThreads : SABegin(t)
  \/ \E t \in ConnThreads : SARpc(t)
  \/ \E t \in ConnThreads : SSBegin(t)
  \/ \E t \in RestartThreads : RABegin(t)
  \/ \E t \in RestartThreads : RASpawn(t)
  \/ \E h \in AllHosts : UnitDial(h)
  \/ \E h \in AllHosts : UnitStart(h)
  \/ \E h \in AllHosts : UnitSend(h)
  \/ \E t \in RestartThreads : RAWait(t)
  \/ \E h \in AllHosts : AgentChange(h)
  \/ \E h \in AllHosts : ConnChange(h)

SpecHub == InitHub /\ [][NextHub]_vars

\* ------------------------------------------------------ Start and Stop

Stops == {"Stop(true)", "Stop(false)"}

\* A call that can never go on: a receive from the nil stopped channel, or a
\* WaitForStateChange away from Shutdown on a connection that is shut down.
Stuck(t) ==
  \/ pc[t] = "stop_recv" /\ stoppedNil
  \/ /\ pc[t] = "stop_wait"
     /\ curr[t] = "SHUTDOWN"
     /\ connState[Head(todo[t])] = "SHUTDOWN"

\* C1: a Stop() called after a Stop() has returned does not block: it is never
\* at a step it cannot get past, whether or not a Start() had installed a server.
C1_SecondStopReturns ==
  \A t \in Threads : op[t] \in Stops /\ afterStop[t] => ~Stuck(t)

\* C2: once a Stop() has returned the gate is nil for good, and a
\* Start() called after that never installs its server nor calls Serve; it
\* returns ErrHubStopped, or the error of net.Listen when the bind fails.
C2_TerminallyStopped ==
  /\ stopReturned => stoppedNil
  /\ \A t \in Threads :
       op[t] = "Start" /\ afterStop[t] => pc[t] = "start_lock" /\ server # t
  /\ res.op = "Start" /\ res.after => res.err \in {"ErrHubStopped", "listen"}

\* A Start() called after a Stop() had returned has returned ErrHubStopped.
C2_Witness == res.op = "Start" /\ res.after /\ res.err = "ErrHubStopped"

\* C2, with ErrHubStopped as the only error: once a Stop() has returned the gate
\* is nil for good, and a Start() called after that never installs its server
\* nor calls Serve, and returns ErrHubStopped.
C2_AlwaysErrHubStopped ==
  /\ stopReturned => stoppedNil
  /\ \A t \in Threads :
       op[t] = "Start" /\ afterStop[t] => pc[t] = "start_lock" /\ server # t
  /\ res.op = "Start" /\ res.after => res.err = "ErrHubStopped"

\* C3: when Start() has returned ErrHubStopped, the listener it bound is not
\* open (nothing serves on it: the server was never given it).
C3_NoOrphanListener ==
  res.op = "Start" /\ res.err = "ErrHubStopped" /\ pc[res.t] = "idle"
    => lis[res.t] # "open"

\* C4: a Stop() that found a server installed returns only once the Start() that
\* installed it has sent on the stopped channel and returned, and it is never
\* left waiting on a channel that no send can reach.
C4_StopWaitsForServe ==
  [][\A t \in Threads :
       /\ pc[t] = "stop_recv" /\ pc'[t] = "idle"
            => (server \in Threads => op[server] # "Start")
       /\ pc'[t] = "stop_recv" => ~stoppedNil']_vars

\* ------------------------------------------------------------ StopAgents

\* C5: a reply counts as a failure for its host, the status Unavailable with
\* "transport is closing" as a success and every other status as a failure; a
\* StopAgents that issued its RPCs returns nil iff every one of them came back
\* as a success.
C5_StopAgentsClassification ==
  /\ \A o \in RpcOutcomes :
       request(o) = "nil"
         <=> ~o.ok /\ o.code = "Unavailable" /\ o.msg = "transport is closing"
  /\ saRes.rpc => (saRes.err = "" <=> saRes.closing)

\* StopAgents has stopped the agents of both hosts and returned nil.
C5_Witness ==
  /\ res.op = "StopAgents" /\ res.err = ""
  /\ saRes.rpc /\ saRes.closing
  /\ Len(agentConns) = 2

\* ------------------------------------------------------------ AgentConns

\* s is a prefix of t.
IsPrefix(s, t) == Len(s) <= Len(t) /\ \A i \in DOMAIN s : s[i] = t[i]

\* C6: AgentConns is all or nothing: a call in which a dial failed returns an
\* error, every call that succeeds returns one connection for every host of
\* AgentHosts(Source), and no partial set stays cached.
C6_AllOrNothing ==
  /\ acRes.err = ""
       => /\ Range(acRes.conns) = AgentHostSet(Source)
          /\ Len(acRes.conns) = Cardinality(AgentHostSet(Source))
  /\ agentConns # <<>> /\ mu = NoThread
       => Range(agentConns) = AgentHostSet(Source)

\* C7: on a cluster with three agent hosts, after an AgentConns call that failed
\* to dial a host B, the caller's next call, which returns when B answers
\* again, fails too.
C7_StillFails ==
  [][\A t \in Threads :
       /\ op[t] = "AgentConns" /\ pc'[t] = "idle"
       /\ Cardinality(AgentHostSet(Source)) = 3
       /\ acRes.t = t /\ acRes.err = "agent connections"
       /\ reachable[acRes.bad[1]]
       => acRes'.err # ""]_vars

\* C8: with a connection set cached, AgentConns dials nothing and leaves the
\* cache as it is; it succeeds iff every cached connection is Ready, and its
\* error names the hosts of exactly the cached connections that are not.
C8_CachedBranch ==
  [][\A t \in Threads :
       pc[t] = "ac_lock" /\ pc'[t] # "ac_lock" /\ agentConns # <<>>
       => /\ pc'[t] # "ac_dial" /\ dialed' = dialed
          /\ agentConns' = agentConns
          /\ acRes'.t = t
          /\ acRes'.err = ""
               <=> \A i \in DOMAIN agentConns : connState[agentConns[i]] = "READY"
          /\ acRes'.err = "" => acRes'.conns = agentConns
          /\ acRes'.err # ""
               => acRes'.bad = SelectSeq(agentConns, LAMBDA h : connState[h] # "READY")]_vars

\* With both connections cached and both broken, AgentConns has failed and
\* named the two hosts.
C8_Witness ==
  /\ Len(agentConns) = 2
  /\ acRes.err = "not ready"
  /\ Len(acRes.bad) = 2

\* C9: the cached set is never cleared nor replaced (it only grows, while it
\* is being dialed), a dial is only made to a host that has never been dialed,
\* and every successful call returns what the first one returned.
C9_DialedAtMostOnce ==
  [][/\ IsPrefix(agentConns, agentConns')
     /\ \A t \in Threads : pc'[t] = "ac_dial" => ~dialed'[Head(todo'[t])]
     /\ acRes'.err = "" => acRes'.conns = firstConns'.conns]_vars

\* --------------------------------------------------------- RestartAgents

\* The hosts that sent an error.
Failing == {h \in AllHosts : unitOut[h] \in {"close_error", "path_error", "cmd_error"}}

\* C10: RestartAgents starts a goroutine for every hostname and returns only
\* when all of them are done; a goroutine that sends always finds room in its
\* channel; the errors returned are one for every host that failed, so none
\* iff no host failed, and the hosts returned are those that were restarted.
C10_FanOut ==
  [][/\ \A h \in AllHosts :
          /\ unit'[h] = "send_err" => Len(errs') < chanCap'
          /\ unit'[h] = "send_host" => Len(restartedCh') < chanCap'
     /\ \A t \in Threads :
          pc[t] = "ra_wait" /\ pc'[t] # "ra_wait"
          => /\ \A h \in AgentHostSet(Source) : unit[h] = "done"
             /\ Len(raRes'.errs) = Cardinality(Failing)
             /\ {raRes'.errs[i].host : i \in DOMAIN raRes'.errs} = Failing
             /\ Range(raRes'.hosts) = {h \in AllHosts : unitOut[h] = "restarted"}
             /\ Len(raRes'.hosts) = Cardinality(Range(raRes'.hosts))
             /\ pc'[t] = "idle" <=> Failing # {}
             /\ pc'[t] = "idle" => res'.t = t /\ res'.err = "restart agents"]_vars

\* RestartAgents has returned the errors of both hosts.
C10_Witness == raRes.set /\ Len(raRes.errs) = 2

\* The hosts whose goroutine dialed in vain and went on to start an agent.
DialFailed == {h \in AllHosts : unitOut[h] \in {"path_error", "cmd_error", "restarted"}}

\* C11: when RestartAgents restarted at least one host and failed on another,
\* the reply of the RPC holds the restarted hosts beside the aggregated error.
C11_RestartedHostsReported ==
  [][\A t \in Threads :
       /\ pc[t] = "ra_wait" /\ pc'[t] = "idle"
       /\ raRes'.hosts # <<>> /\ raRes'.errs # <<>>
       => /\ res'.err # ""
          /\ res'.hosts = Range(raRes'.hosts)]_vars

\* C12: for every hostname, when RestartAgents returns: a host whose agent
\* answered the dial has had no command run and is not returned as restarted;
\* a host whose dial failed has had at most one command run, exactly one unless
\* the path of the gpupgrade binary could not be found, and is returned as
\* restarted iff a command was run and succeeded.
C12_LaunchPerHost ==
  [][\A t \in Threads :
       pc[t] = "ra_wait" /\ pc'[t] # "ra_wait"
       => \A h \in AgentHostSet(Source) :
            /\ unitOut[h] # "none"
            /\ h \notin DialFailed
               => cmds[h] = 0 /\ h \notin Range(raRes'.hosts)
            /\ h \in DialFailed
               => /\ cmds[h] = (IF unitOut[h] = "path_error" THEN 0 ELSE 1)
                  /\ h \in Range(raRes'.hosts)
                     <=> cmds[h] = 1 /\ unitOut[h] = "restarted"]_vars

\* All goroutines are done: one host answered the dial, the command of the
\* other succeeded.
C12_Witness ==
  /\ \E t \in Threads : pc[t] = "ra_wait"
  /\ wg = 0
  /\ \E h, g \in AgentHostSet(Source) :
       /\ unitOut[h] = "running" /\ cmds[h] = 0
       /\ unitOut[g] = "restarted" /\ cmds[g] = 1

\* C12 without the exception: exactly one command is run for every host whose
\* dial failed.
C12_ExactlyOneLaunch ==
  [][\A t \in Threads :
       pc[t] = "ra_wait" /\ pc'[t] # "ra_wait"
       => \A h \in DialFailed : cmds[h] = 1]_vars

\* ------------------------------------------- data migration script generators

\* The error that the call made for unit u returns when it fails.
UnitErr(u) == [unit |-> u]

\* The targets a generator starts one goroutine for: the databases for
\* GenerateDataMigrationScripts, the phases for GenerateScriptsPerDatabase.
GenTargets(fn) ==
  IF fn = "GenerateDataMigrationScripts" THEN Databases ELSE MigrationScriptPhases

\* A generator returns.
GenReturn(ran, list, ret) ==
  /\ genRes' = [set |-> TRUE, fn |-> genFn, ran |-> ran, errs |-> list, ret |-> ret]
  /\ genFn' = "none"

\* progressBar.New(total, ...): a bar that completes at total increments.
NewBar(total) == [total |-> total, current |-> 0, aborted |-> FALSE]

\* n calls of bar.Increment().
Increment(bar, n) == [bar EXCEPT !.current = bar.current + n]

\* The bar has had all its increments.
Completed(bar) == bar.total > 0 /\ bar.current >= bar.total

\* bar.Abort(false): nothing happens to a bar that has completed.
Abort(bar) == IF Completed(bar) THEN bar ELSE [bar EXCEPT !.aborted = TRUE]

\* progressBar.Wait() returns when every bar has completed or is aborted.
ProgressWait(bs) == \A d \in DOMAIN bs : bs[d] = NoBar \/ Completed(bs[d]) \/ bs[d].aborted

\* The generator that has a progress bar for each of its goroutines.
HasBars(fn) == fn = "GenerateDataMigrationScripts"

\* What a generator can return before its loop: the error of what it does
\* first (connecting, the archive prompt, GetDatabases; the SQL that prepares
\* the database), and, for GenerateDataMigrationScripts, nil when the archive
\* prompt returns step.Skip.
EarlyReturns(fn) ==
  IF fn = "GenerateDataMigrationScripts" THEN {"other", "nil"} ELSE {"other"}

\* A generator is called. It returns before its loop, or errChan is made and
\* the loop begins.
GenBegin(fn) ==
  /\ genFn = "none"
  /\ \E early \in EarlyReturns(fn) \cup {"none"} :
       IF early # "none"
       THEN /\ genRes' = [set |-> TRUE, fn |-> fn, ran |-> FALSE, errs |-> <<>>,
                          ret |-> early]
            /\ UNCHANGED <<genFn, genTodo>>
       ELSE /\ genFn' = fn
            /\ genTodo' = GenTargets(fn)
            /\ genRes' = NoGen
  /\ genPc' = [u \in GenUnits |-> "none"]
  /\ genOut' = [u \in GenUnits |-> "none"]
  /\ genErr' = NilErr
  /\ errChan' = <<>>
  /\ genWg' = 0
  /\ bars' = [d \in DatabaseSet |-> NoBar]
  /\ UNCHANGED notGen

\* wg.Add(1), progressBar.New for a database, and go func(...){...}(...) for
\* the next target.
GenSpawn ==
  /\ genFn # "none"
  /\ genTodo # <<>>
  /\ genWg' = genWg + 1
  /\ genPc' = [genPc EXCEPT ![Head(genTodo)] = "call"]
  /\ genTodo' = Tail(genTodo)
  /\ bars' = IF HasBars(genFn)
             THEN [bars EXCEPT ![Head(genTodo)] = NewBar(NumSeedScripts)]
             ELSE bars
  /\ UNCHANGED <<notGen, genFn, genOut, genErr, errChan, genRes>>

\* err = GenerateScriptsPerDatabase(...) or err = GenerateScriptsPerPhase(...):
\* the call returns and its result is stored in err. A call for a database
\* has incremented the bar once for every seed script that ran: all of them,
\* or fewer when a script failed. GenerateScriptsPerDatabase returns nil for
\* either: its goroutines share err as these do, and one of them can find nil
\* there after its own phase failed.
GenCall(u) ==
  /\ genPc[u] = "call"
  /\ \E ok \in BOOLEAN, n \in 0..NumSeedScripts :
       /\ HasBars(genFn) \/ n = NumSeedScripts
       /\ genOut' = [genOut EXCEPT ![u] = IF ok THEN "ok" ELSE "failed"]
       /\ genErr' = IF ok THEN NilErr ELSE UnitErr(u)
       /\ bars' = IF HasBars(genFn)
                  THEN [bars EXCEPT ![u] = Increment(@, n)]
                  ELSE bars
  /\ genPc' = [genPc EXCEPT ![u] = "check"]
  /\ UNCHANGED <<notGen, genFn, genTodo, errChan, genWg, genRes>>

\* if err != nil: err is read, the variable of the enclosing function that
\* every goroutine assigns to; the goroutine returns (wg.Done()) when it is nil.
GenCheck(u) ==
  /\ genPc[u] = "check"
  /\ IF genErr # NilErr
     THEN /\ genPc' = [genPc EXCEPT ![u] = "send"]
          /\ UNCHANGED genWg
     ELSE /\ genPc' = [genPc EXCEPT ![u] = "done"]
          /\ genWg' = genWg - 1
  /\ UNCHANGED <<notGen, genFn, genTodo, genOut, genErr, errChan, genRes, bars>>

\* errChan <- err: err is read again and sent; the channel has room for one
\* value of every goroutine. Then the bar of the database is aborted and the
\* goroutine returns (wg.Done()).
GenSend(u) ==
  /\ genPc[u] = "send"
  /\ Len(errChan) < Len(GenTargets(genFn))
  /\ errChan' = Append(errChan, genErr)
  /\ genPc' = [genPc EXCEPT ![u] = "done"]
  /\ genWg' = genWg - 1
  /\ bars' = IF HasBars(genFn) THEN [bars EXCEPT ![u] = Abort(@)] ELSE bars
  /\ UNCHANGED <<notGen, genFn, genTodo, genOut, genErr, genRes>>

\* progressBar.Wait() and wg.Wait() return; errChan is closed and drained into errs. errs is returned
\* unless it is nil; then what follows (dropping the schema, GetLogDir) can
\* still fail.
GenWait ==
  /\ genFn # "none"
  /\ genTodo = <<>>
  /\ HasBars(genFn) => ProgressWait(bars)
  /\ genWg = 0
  /\ IF Drain(<<>>, errChan) # <<>>
     THEN GenReturn(TRUE, Drain(<<>>, errChan), "errs")
     ELSE \E tailOk \in BOOLEAN :
            GenReturn(TRUE, <<>>, IF tailOk THEN "nil" ELSE "other")
  /\ errChan' = <<>>
  \* the goroutines are gone
  /\ genPc' = [u \in GenUnits |-> "none"]
  /\ genOut' = [u \in GenUnits |-> "none"]
  /\ genErr' = NilErr
  /\ bars' = [d \in DatabaseSet |-> NoBar]
  /\ UNCHANGED <<notGen, genTodo, genWg>>

\* The generators of the data migration scripts, called again and again.
InitGen ==
  /\ New(MockCluster)
  /\ reachable = [h \in AllHosts |-> FALSE]

NextGen ==
  \/ \E fn \in {"GenerateDataMigrationScripts", "GenerateScriptsPerDatabase"} :
       GenBegin(fn)
  \/ GenSpawn
  \/ \E u \in GenUnits : GenCall(u)
  \/ \E u \in GenUnits : GenCheck(u)
  \/ \E u \in GenUnits : GenSend(u)
  \/ GenWait

SpecGen == InitGen /\ [][NextGen]_vars

\* The units whose call failed.
GenFailed == {u \in GenUnits : genOut[u] = "failed"}

\* C13: when a generator returns after its goroutines are done: if the call of
\* exactly one unit failed, the aggregate holds the error of that unit and
\* nothing else; and if the call of any unit failed, nil is not returned.
C13_NoFailureDropped ==
  [][genFn # "none" /\ genFn' = "none"
     => /\ \A u \in GenUnits :
             GenFailed = {u} => genRes'.errs = <<UnitErr(u)>>
        /\ GenFailed # {} => genRes'.ret # "nil"]_vars

\* ------------------------------------------------------------ StopServices

\* The positions of a thread inside Stop.
StopPcs == {"stop_lock", "stop_close", "stop_wait", "stop_server", "stop_recv"}

\* C14: StopServices enters Stop only when its StopAgents has returned, and
\* when it returns, it returns nil with its reply, whatever StopAgents
\* returned, and the hub is stopped: its grpc server no longer serves and the
\* Server is marked stopped. Only Stop itself and StopServices are ever inside
\* Stop: no other handler calls it.
C14_StopServices ==
  [][\A t \in Threads :
       /\ op[t] = "StopServices" /\ pc[t] \notin StopPcs /\ pc'[t] \in StopPcs
          => /\ pc[t] \in {"ac_lock", "ac_dial", "sa_rpc"}
             /\ saRes'.t = t
             /\ err'[t] = saRes'.err
       /\ op[t] = "StopServices" /\ pc'[t] = "idle"
          => /\ pc[t] \in StopPcs
             /\ res' = Result(t, Ret("StopServices", ""), afterStop[t])
             /\ stoppedNil'
             /\ \A u \in Threads : srv'[u] \notin {"new", "serving"}
       /\ pc'[t] \in StopPcs
          => op'[t] \in {"Stop(true)", "Stop(false)", "StopServices"}]_vars

\* StopServices has returned nil although its StopAgents had failed.
C14_Witness ==
  /\ res.op = "StopServices"
  /\ res.err = ""
  /\ saRes.t = res.t
  /\ saRes.err # ""
  /\ stoppedNil

\* ------------------------------------------------------------ handler panics

\* A hub that is up and gets RPCs, some of whose handlers panic.
InitPanic == HubUp(MockCluster) /\ Agents

NextPanic ==
  \/ ServeReturn("t1")
  \/ StartSignal("t1")
  \/ \E t \in ConnThreads : HandlerPanic(t)
  \/ \E t \in ConnThreads : SABegin(t)
  \/ \E t \in ConnThreads : SSBegin(t)
  \/ \E t \in ConnThreads : ACLock(t)
  \/ \E t \in ConnThreads : ACDial(t)
  \/ \E t \in ConnThreads : SARpc(t)
  \/ \E t \in ConnThreads : StopLock(t)
  \/ \E t \in ConnThreads : StopServer(t)
  \/ \E t \in ConnThreads : StopRecv(t)
  \/ \E h \in AllHosts : AgentChange(h)
  \/ \E h \in AllHosts : ConnChange(h)

SpecPanic == InitPanic /\ [][NextPanic]_vars

\* C15: a panic of a handler is logged, the RPC returns an error to its caller,
\* and the hub goes on serving.
C15_PanicBecomesError ==
  [][panics' # panics
     => /\ panics' = panics + 1
        /\ res'.op = "panic"
        /\ res'.err # ""
        /\ Serving']_vars

\* ---------------------------------------------------------------- AgentHosts

\* The hosts that the segments of the clusters run on.
SegmentHosts == {"mdw", "sdw1", "sdw2"}

\* The segments of one content id: none, or a primary, or a primary and its
\* mirror, each on any host.
ContentSegments(c) ==
  {{}}
    \cup {{Seg(c, "p", h)} : h \in SegmentHosts}
    \cup {{Seg(c, "p", h), Seg(c, "m", g)} : h \in SegmentHosts, g \in SegmentHosts}

\* The clusters: the coordinator on mdw, and the segments of two content ids.
Clusters ==
  {{Seg(Coordinator, "p", "mdw")} \cup a \cup b :
     a \in ContentSegments(0), b \in ContentSegments(1)}

\* AgentHosts(s.Source) is called: it returns the keys of uniqueHosts in the
\* order the range over the map yields them.
CallAgentHosts ==
  /\ \E hosts \in AgentHosts(Source) :
       hostsRes' = [set |-> TRUE, hosts |-> hosts]
  /\ UNCHANGED notHosts

\* AgentHosts on every cluster.
InitHosts ==
  /\ \E c \in Clusters : New(c)
  /\ reachable = [h \in AllHosts |-> FALSE]

NextHosts == CallAgentHosts

SpecHosts == InitHosts /\ [][NextHosts]_vars

\* The hostname of the coordinator of the cluster.
CoordinatorHost == (CHOOSE seg \in Source : seg.contentID = Coordinator).hostname

\* The segments of the cluster that are not its coordinator.
NonCoordinators == {seg \in Source : seg.contentID # Coordinator}

\* C16: AgentHosts returns every hostname of a segment that is not the
\* coordinator, each of them once, however many segments share it, and no other
\* hostname; the hostname of the coordinator is returned iff a segment that is
\* not the coordinator runs on that host.
C16_AgentHosts ==
  hostsRes.set
  => /\ \A i, j \in DOMAIN hostsRes.hosts :
          hostsRes.hosts[i] = hostsRes.hosts[j] => i = j
     /\ \A h \in AllHosts :
          h \in Range(hostsRes.hosts) <=> \E seg \in NonCoordinators : seg.hostname = h
     /\ CoordinatorHost \in Range(hostsRes.hosts)
          <=> \E seg \in NonCoordinators : seg.hostname = CoordinatorHost

\* AgentHosts has returned for a cluster in which two segments share a host and
\* a segment runs on the host of the coordinator.
C16_Witness ==
  /\ hostsRes.set
  /\ \E a, b \in NonCoordinators : a # b /\ a.hostname = b.hostname
  /\ \E seg \in NonCoordinators : seg.hostname = CoordinatorHost
  /\ CoordinatorHost \in Range(hostsRes.hosts)

\* C16 with the hostname of the coordinator never returned.
C16_NeverCoordinatorHost ==
  hostsRes.set
  => /\ CoordinatorHost \notin Range(hostsRes.hosts)
     /\ \A i, j \in DOMAIN hostsRes.hosts :
          hostsRes.hosts[i] = hostsRes.hosts[j] => i = j
     /\ \A seg \in NonCoordinators : seg.hostname \in Range(hostsRes.hosts)

\* ------------------------------------------------------------- config.json

\* The configurations that the hub saves.
Configs == {"config1", "config2"}

\* upgrade.PathExist(path).
PathExist(file) == file # Absent

\* os.WriteFile(path, data, 0644) begins: the file is created, or truncated,
\* and opened; the data is written to it after that.
WriteFileOpen(v) ==
  /\ cfgFile' = File(v, 0)
  /\ cfgPc' = "write"

\* One write of os.WriteFile to config.json; after the last one the file is
\* closed and the writer is done.
WriteFileWrite ==
  /\ cfgPc = "write"
  /\ cfgFile' = File(cfgFile.v, cfgFile.n + 1)
  /\ cfgPc' = IF cfgFile.n + 1 = FileBlocks THEN "idle" ELSE "write"
  /\ UNCHANGED <<notCfg, cfgTmp, cfgRead>>

\* utils.AtomicallyWrite(path, data) begins: a temporary file is created beside
\* the file; the data is written to it and it is renamed over the file.
AtomicallyWrite(v) ==
  /\ cfgTmp' = File(v, 0)
  /\ cfgPc' = "tmp_write"

\* One write to the temporary file.
TmpWrite ==
  /\ cfgPc = "tmp_write"
  /\ cfgTmp' = File(cfgTmp.v, cfgTmp.n + 1)
  /\ cfgPc' = IF cfgTmp.n + 1 = FileBlocks THEN "rename" ELSE "tmp_write"
  /\ UNCHANGED <<notCfg, cfgFile, cfgRead>>

\* The temporary file is renamed to config.json.
TmpRename ==
  /\ cfgPc = "rename"
  /\ cfgFile' = cfgTmp
  /\ cfgTmp' = Absent
  /\ cfgPc' = "idle"
  /\ UNCHANGED <<notCfg, cfgRead>>

\* Config.Save(): the configuration is encoded and written atomically.
ConfigSave(v) ==
  /\ cfgPc = "idle"
  /\ AtomicallyWrite(v)
  /\ UNCHANGED <<notCfg, cfgFile, cfgRead>>

\* config.Create(): nothing is done when the file exists, or when PathExist
\* fails; otherwise the bootstrap configuration is saved.
ConfigCreate ==
  /\ cfgPc = "idle"
  /\ IF PathExist(cfgFile)
     THEN UNCHANGED <<cfgTmp, cfgPc>>
     ELSE AtomicallyWrite("created")
  /\ UNCHANGED <<notCfg, cfgFile, cfgRead>>

\* commanders.CreateConfigFile(hubPort): nothing is done when the file exists,
\* or when PathExist fails; otherwise the port is written with os.WriteFile.
CreateConfigFile ==
  /\ cfgPc = "idle"
  /\ IF PathExist(cfgFile)
     THEN UNCHANGED <<cfgFile, cfgPc>>
     ELSE WriteFileOpen("port")
  /\ UNCHANGED <<notCfg, cfgTmp, cfgRead>>

\* Another process opens config.json and reads it (Config.Load).
ConfigLoad ==
  /\ cfgRead' = cfgFile
  /\ UNCHANGED <<notCfg, cfgFile, cfgTmp, cfgPc>>

\* The state directory is deleted, as a revert does, while nothing is written.
RemoveStateDir ==
  /\ cfgPc = "idle"
  /\ PathExist(cfgFile)
  /\ cfgFile' = Absent
  /\ UNCHANGED <<notCfg, cfgTmp, cfgPc, cfgRead>>

\* The writers of config.json, one at a time, and a reader beside them.
InitConfig ==
  /\ New(MockCluster)
  /\ reachable = [h \in AllHosts |-> FALSE]

NextConfig ==
  \/ CreateConfigFile
  \/ WriteFileWrite
  \/ ConfigCreate
  \/ \E v \in Configs : ConfigSave(v)
  \/ TmpWrite
  \/ TmpRename
  \/ ConfigLoad
  \/ RemoveStateDir

SpecConfig == InitConfig /\ [][NextConfig]_vars

\* C17: whatever is being written, a reader of config.json finds no file or
\* a complete content, never a part of one.
C17_NoPartialRead ==
  cfgRead # NoRead => cfgRead = Absent \/ cfgRead.n = FileBlocks

\* --------------------------------------- gpupgrade initialize and revert, steps

\* The runs of initialize and revert that are followed.
MaxRuns == 3

\* The substeps of initialize, in the order the command calls them: the method
\* of the Step that runs each, and the name of the substep (only RunCLISubstep
\* and RunCLISubstepConditionally are given one; the others are named here after
\* what their body does).
InitializeProgram ==
  << [kind |-> "internal", name |-> "verify_versions"],
     [kind |-> "internal", name |-> "create_temporary_config"],
     [kind |-> "cli_if",   name |-> "generate_data_migration_scripts"],
     [kind |-> "cli_if",   name |-> "execute_stats_data_migration_scripts"],
     [kind |-> "cli_if",   name |-> "execute_initialize_data_migration_scripts"],
     [kind |-> "internal", name |-> "prompt"],
     [kind |-> "internal", name |-> "remove_temporary_config"],
     [kind |-> "internal", name |-> "create_config"],
     [kind |-> "cli",      name |-> "start_hub"],
     [kind |-> "hub",      name |-> "initialize"],
     [kind |-> "hub",      name |-> "create_cluster"] >>

\* The substeps of revert when it finds the temporary configuration file.
RevertTmpProgram ==
  << [kind |-> "cli",    name |-> "archive_log_directories"],
     [kind |-> "cli_if", name |-> "execute_revert_data_migration_scripts"],
     [kind |-> "cli",    name |-> "delete_master_statedir"] >>

\* The substeps of revert when it does not.
RevertHubProgram ==
  << [kind |-> "hub",    name |-> "revert"],
     [kind |-> "cli",    name |-> "stop_hub_and_agents"],
     [kind |-> "cli_if", name |-> "execute_revert_data_migration_scripts"],
     [kind |-> "cli",    name |-> "delete_master_statedir"] >>

\* The substeps of the command that is running.
Program ==
  IF stCmd = "revert"
  THEN IF stNoHub THEN RevertTmpProgram ELSE RevertHubProgram
  ELSE InitializeProgram

\* The substep the run has come to.
Current == Program[stPos]

AtSubstep(kinds) == stPos \in DOMAIN Program /\ Current.kind \in kinds

\* What a substep leaves in st.err: nothing when its body returned nil or the
\* Skip sentinel, otherwise the error (the Quit sentinel is one).
ErrOf(out) == IF out \in {"nil", "skip"} THEN "" ELSE out

\* The status recorded for a named substep whose body returned out.
StatusOf(out) ==
  IF out = "nil" THEN "complete" ELSE IF out = "skip" THEN "skipped" ELSE "failed"

\* A Step that records a substep whose body returned Quit as failed.
WriteQuitAsFailed(status, name, out) == [status EXCEPT ![name] = StatusOf(out)]

\* The status file after a named substep whose body returned out: a substep
\* that returned the Quit sentinel is not marked.
Write(status, name, out) ==
  IF out = "quit" THEN status ELSE [status EXCEPT ![name] = StatusOf(out)]

\* A named substep recorded as complete is not run again.
AlreadyDone(status) == status = "complete"

\* A Step whose store cannot be disabled.
KeepStore(off) == off

\* st.DisableStore(): the Step writes no status from now on.
DisableStore(off) == TRUE

\* A hub substep that is over as soon as its RPC is sent.
NoWait(rpcs) == FALSE

\* A hub substep waits for the reply of the RPC it has sent.
AwaitsReply(rpcs) == rpcs > 0

\* The status file of a new state directory.
Pending == [n \in Substeps |-> "pending"]

\* os.Mkdir of the state directory by CreateStateDir.
Mkdir(dir) ==
  IF dir.exists
  THEN {[err |-> "exist", dir |-> dir]}
  ELSE {[err |-> "", dir |-> [exists |-> TRUE, files |-> {}]],
        [err |-> "error", dir |-> dir]}

\* commanders.CreateStateDir(): a state directory that is already present is
\* passed over, and any other failure of Mkdir is returned.
CreateStateDir(dir) ==
  {[err |-> IF r.err = "exist" THEN "" ELSE r.err, dir |-> r.dir] : r \in Mkdir(dir)}

\* What the body of a substep did: what it returned, the state directory and
\* the hub process after it, and whether the store is disabled after it.
Eff(out, dir, hub, off) == [out |-> out, dir |-> dir, hub |-> hub, off |-> off]

\* A body that touches neither the state directory nor the hub.
Plain(outs) == {Eff(o, stateDir, hubRunning, storeOff) : o \in outs}

\* commanders.CreateTemporaryConfigFile: a file that is present is kept.
CreateTemporaryConfigFile(dir) ==
  IF TmpConfig \in dir.files
  THEN {[out |-> "nil", dir |-> dir], [out |-> "error", dir |-> dir]}
  ELSE {[out |-> "error", dir |-> dir]}
         \cup IF dir.exists
              THEN {[out |-> "nil",
                     dir |-> [dir EXCEPT !.files = @ \cup {TmpConfig}]]}
              ELSE {}

\* commanders.RemoveTemporaryConfigFile.
RemoveTemporaryConfigFile(dir) ==
  {[out |-> "nil", dir |-> [dir EXCEPT !.files = @ \ {TmpConfig}]],
   [out |-> "error", dir |-> dir]}

\* commanders.CreateConfigFile, as far as the presence of config.json goes.
BootstrapConfigFile(dir) ==
  IF ConfigFile \in dir.files
  THEN {[out |-> "nil", dir |-> dir], [out |-> "error", dir |-> dir]}
  ELSE {[out |-> "error", dir |-> dir]}
         \cup IF dir.exists
              THEN {[out |-> "nil",
                     dir |-> [dir EXCEPT !.files = @ \cup {ConfigFile}]]}
              ELSE {}

\* A DeleteDirectories that reports success and leaves the directory.
DeleteNothing(dir) == {[out |-> "nil", dir |-> dir], [out |-> "error", dir |-> dir]}

\* upgrade.DeleteDirectories of the state directory.
DeleteDirectories(dir) ==
  {[out |-> "nil", dir |-> NoDir], [out |-> "error", dir |-> dir]}

\* commanders.StartHub(): what it can return and whether a hub runs after it.
\* It returns Skip when a hub is running; otherwise it starts one, or fails.
StartHub(running) ==
  IF running
  THEN {[out |-> "skip", running |-> TRUE], [out |-> "error", running |-> TRUE]}
  ELSE {[out |-> "nil", running |-> TRUE], [out |-> "error", running |-> FALSE]}

\* The body of an internal substep of initialize.
InternalBody(name) ==
  CASE name = "create_temporary_config" ->
         {Eff(r.out, r.dir, hubRunning, storeOff) :
            r \in CreateTemporaryConfigFile(stateDir)}
    [] name = "remove_temporary_config" ->
         {Eff(r.out, r.dir, hubRunning, storeOff) :
            r \in RemoveTemporaryConfigFile(stateDir)}
    [] name = "create_config" ->
         {Eff(r.out, r.dir, hubRunning, storeOff) :
            r \in BootstrapConfigFile(stateDir)}
    [] name = "prompt" ->
         Plain(IF stFlags.nonInteractive THEN {"nil"} ELSE {"nil", "quit", "error"})
    [] OTHER -> Plain({"nil", "error"})

\* The body of a substep run with RunCLISubstep. The bodies that delete the
\* state directory disable the store first.
CLIBody(name) ==
  CASE name = "start_hub" ->
         {Eff(r.out, stateDir, r.running, storeOff) : r \in StartHub(hubRunning)}
    [] name = "stop_hub_and_agents" ->
         {Eff("nil", stateDir, FALSE, storeOff),
          Eff("error", stateDir, hubRunning, storeOff)}
    [] OTHER ->
         {Eff(r.out, r.dir, hubRunning, DisableStore(storeOff)) :
            r \in DeleteDirectories(stateDir)}

\* The body of a substep run with RunCLISubstepConditionally: it generates or
\* applies data migration scripts, and the operator can quit at its prompt.
ScriptsBody(name) == Plain({"nil", "skip", "quit", "error"})

\* The CLI can connect to the hub: it reads the port from config.json.
HubReachable == hubRunning /\ ConfigFile \in stateDir.files

\* The body of a hub substep: what it can return and the RPCs it sends. It
\* connects to the hub and sends one RPC; the second hub substep of initialize
\* returns Skip under --stop-before-cluster-creation and otherwise sends
\* InitializeCreateCluster.
HubBody(name, flags, running) ==
  IF name = "create_cluster" /\ flags.stopBeforeClusterCreation
  THEN {[out |-> "skip", rpcs |-> 0]}
  ELSE IF ~running
       THEN {[out |-> "error", rpcs |-> 0]}
       ELSE {[out |-> "nil", rpcs |-> 1], [out |-> "error", rpcs |-> 1]}

\* A body that reads standard input whatever the flags are.
ReadsAnyway(substep, flags) == substep.kind = "cli_if" \/ substep.name = "prompt"

\* The body of the substep asks the operator and reads standard input: the
\* bodies that generate and apply data migration scripts and the prompt of
\* initialize do, unless nonInteractive is set.
Reads(substep, flags) ==
  /\ substep.kind = "cli_if" \/ substep.name = "prompt"
  /\ ~flags.nonInteractive

\* The substep has been dealt with: the command calls the next one.
Advance == stPos' = stPos + 1

\* The body of the current substep has run and returned out.
Executed(out) ==
  /\ stExec' = stExec \cup {stPos}
  /\ stAsked' = (stAsked \/ Reads(Current, stFlags))
  /\ stOut' = [at |-> stPos, out |-> out]
  /\ stErr' = ErrOf(out)

\* The body of the current substep has left the state directory and the hub
\* process as e says.
Effect(e) ==
  /\ stateDir' = e.dir
  /\ hubRunning' = e.hub
  /\ storeOff' = e.off
  /\ stDeleted' = (stDeleted \/ (stateDir.exists /\ ~e.dir.exists))

\* What a declined confirmation makes the command return: revert returns no
\* error, initialize returns the cancellation.
Canceled(cmd) == IF cmd = "revert" THEN "" ELSE "canceled"

\* What upgrade.PathExist of the temporary configuration file can fail with
\* in revert, "" for no error: the command returns the error before its first
\* substep. initialize makes no such call.
StatErrors(cmd) ==
  IF cmd = "revert" THEN {"", "checking temporary configuration path"} ELSE {""}

\* A run of a command begins. initialize creates the state directory first;
\* then commanders.NewStep: unless --non-interactive is given the operator is
\* asked to confirm, and the run ends when they decline. revert then looks for
\* the temporary configuration file, and returns the error of that look.
NewStep(cmd, flags) ==
  /\ stPos = 0
  /\ stRun < MaxRuns
  /\ stRun' = stRun + 1
  /\ stCmd' = cmd
  /\ stFlags' = flags
  /\ store0' = store
  /\ stExec' = {}
  /\ stRpcs' = 0
  /\ stOut' = NoOut
  /\ stErr' = ""
  /\ storeOff' = FALSE
  /\ stDeleted' = FALSE
  /\ lateWrite' = FALSE
  /\ \E d \in IF cmd = "initialize"
              THEN CreateStateDir(stateDir)
              ELSE {[err |-> "", dir |-> stateDir]} :
       /\ stateDir' = d.dir
       /\ stNoHub' = (cmd = "revert" /\ TmpConfig \in d.dir.files)
       /\ stAsked' = (d.err = "" /\ ~flags.nonInteractive)
       /\ IF d.err # ""
          THEN /\ stPos' = 0
               /\ stLast' = [set |-> TRUE, err |-> d.err, by |-> "NewStep"]
          ELSE \E confirmed \in BOOLEAN, statErr \in StatErrors(cmd) :
                 IF flags.nonInteractive \/ confirmed
                 THEN IF statErr # ""
                      THEN /\ stPos' = 0
                           /\ stLast' = [set |-> TRUE, err |-> statErr, by |-> "NewStep"]
                      ELSE /\ stPos' = 1
                           /\ UNCHANGED stLast
                 ELSE /\ stPos' = 0
                      /\ stLast' = [set |-> TRUE, err |-> Canceled(cmd),
                                      by |-> "NewStep"]
  /\ UNCHANGED <<notStep, store, stRpc, hubRunning>>

\* st.RunInternalSubstep(f): nothing is done when st.err is set; otherwise the
\* body runs. No status is recorded for it.
RunInternalSubstep ==
  /\ AtSubstep({"internal"})
  /\ Advance
  /\ IF stErr # ""
     THEN UNCHANGED <<stExec, stAsked, stOut, stErr, stateDir, hubRunning, storeOff,
                      stDeleted>>
     ELSE \E e \in InternalBody(Current.name) : Executed(e.out) /\ Effect(e)
  /\ UNCHANGED <<notStep, stRun, stCmd, stNoHub, stFlags, store, store0, stRpcs,
                 stRpc, stLast, lateWrite>>

\* The Step runs the body of a named substep: unless the store is disabled, it
\* writes that the substep is running before the body and its status after it.
\* The status file goes with the state directory.
RunNamed(bodies) ==
  \E e \in bodies :
    /\ Executed(e.out)
    /\ Effect(e)
    /\ store' = IF ~e.dir.exists THEN Pending
                ELSE IF e.off THEN store
                ELSE Write(store, Current.name, e.out)
    /\ lateWrite' = (lateWrite \/ (~storeOff /\ stDeleted)
                               \/ (~e.off /\ stDeleted'))

\* st.RunCLISubstep(substep, f): nothing is done when st.err is set or the
\* substep is recorded as complete; otherwise the body runs and its status is
\* recorded.
RunCLISubstep ==
  /\ AtSubstep({"cli"})
  /\ Advance
  /\ IF stErr # "" \/ AlreadyDone(store[Current.name])
     THEN UNCHANGED <<stExec, stAsked, stOut, stErr, store, stateDir, hubRunning, storeOff,
                      stDeleted, lateWrite>>
     ELSE RunNamed(CLIBody(Current.name))
  /\ UNCHANGED <<notStep, stRun, stCmd, stNoHub, stFlags, store0, stRpcs, stRpc,
                 stLast>>

\* st.RunCLISubstepConditionally(substep, !nonInteractive, f): the substep is
\* passed over when the condition is false, and run as a CLI substep otherwise.
RunCLISubstepConditionally ==
  /\ AtSubstep({"cli_if"})
  /\ Advance
  /\ IF stFlags.nonInteractive \/ stErr # "" \/ AlreadyDone(store[Current.name])
     THEN UNCHANGED <<stExec, stAsked, stOut, stErr, store, stateDir, hubRunning, storeOff,
                      stDeleted, lateWrite>>
     ELSE RunNamed(ScriptsBody(Current.name))
  /\ UNCHANGED <<notStep, stRun, stCmd, stNoHub, stFlags, store0, stRpcs, stRpc,
                 stLast>>

\* st.RunHubSubstep(f): nothing is done when st.err is set; otherwise the body
\* runs: it returns at once, or sends its RPC and waits for the reply. No
\* status is recorded for it by the command.
RunHubSubstep ==
  /\ AtSubstep({"hub"})
  /\ stRpc = "none"
  /\ IF stErr # ""
     THEN /\ Advance
          /\ UNCHANGED <<stExec, stAsked, stOut, stErr, stRpcs, stRpc>>
     ELSE \E r \in HubBody(Current.name, stFlags, HubReachable) :
            /\ stRpcs' = stRpcs + r.rpcs
            /\ stRpc' = IF r.rpcs > 0 THEN Current.name ELSE "none"
            /\ IF AwaitsReply(r.rpcs)
               THEN UNCHANGED <<stPos, stExec, stAsked, stOut, stErr>>
               ELSE Executed(r.out) /\ Advance
  /\ UNCHANGED <<notStep, stRun, stCmd, stNoHub, stFlags, store, store0, stLast,
                 hubRunning, stateDir, storeOff, stDeleted, lateWrite>>

\* The reply of the RPC arrives, or the call fails: the body of the hub substep
\* returns.
HubReply ==
  /\ AtSubstep({"hub"})
  /\ stRpc # "none"
  /\ stRpc' = "none"
  /\ Advance
  /\ \E out \in IF hubRunning THEN {"nil", "error"} ELSE {"error"} : Executed(out)
  /\ UNCHANGED <<notStep, stRun, stCmd, stNoHub, stFlags, store, store0, stRpcs,
                 stLast, hubRunning, stateDir, storeOff, stDeleted, lateWrite>>

\* st.Complete(text): the run ends; it returns st.err.
Complete ==
  /\ stPos = Len(Program) + 1
  /\ stPos' = 0
  /\ stLast' = [set |-> TRUE, err |-> stErr, by |-> "Complete"]
  /\ UNCHANGED <<notStep, stRun, stCmd, stNoHub, stFlags, stErr, store, store0,
                 stExec, stAsked, stRpcs, stRpc, stOut, hubRunning, stateDir, storeOff,
                 stDeleted, lateWrite>>

\* The substep that follows utils.GetDefaultGeneratedDataMigrationScriptsDir().
ScriptsDirPos ==
  CHOOSE i \in DOMAIN InitializeProgram :
    InitializeProgram[i].name = "generate_data_migration_scripts"

\* generatedScriptsOutputDir, err := utils.GetDefaultGeneratedDataMigrationScriptsDir()
\* fails, between two substeps of initialize: `return nil`, whatever st.err is.
ScriptsDirError ==
  /\ stCmd = "initialize"
  /\ stPos = ScriptsDirPos
  /\ stPos' = 0
  /\ stLast' = [set |-> TRUE, err |-> "", by |-> "return"]
  /\ UNCHANGED <<notStep, stRun, stCmd, stNoHub, stFlags, stErr, store, store0,
                 stExec, stAsked, stRpcs, stRpc, stOut, hubRunning, stateDir, storeOff,
                 stDeleted, lateWrite>>

\* The hub process ends (gpupgrade kill-services, or a failure).
HubExit ==
  /\ hubRunning
  /\ hubRunning' = FALSE
  /\ UNCHANGED <<notStep, stRun, stCmd, stNoHub, stFlags, stPos, stErr, store,
                 store0, stExec, stAsked, stRpcs, stRpc, stOut, stLast, stateDir, storeOff,
                 stDeleted, lateWrite>>

\* A hub is started outside initialize (gpupgrade restart-services); it loads
\* config.json from the state directory.
HubStart ==
  /\ ~hubRunning
  /\ ConfigFile \in stateDir.files
  /\ hubRunning' = TRUE
  /\ UNCHANGED <<notStep, stRun, stCmd, stNoHub, stFlags, stPos, stErr, store,
                 store0, stExec, stAsked, stRpcs, stRpc, stOut, stLast, stateDir, storeOff,
                 stDeleted, lateWrite>>

InitializeFlags == [nonInteractive : BOOLEAN, stopBeforeClusterCreation : BOOLEAN]

RevertFlags == [nonInteractive : BOOLEAN, stopBeforeClusterCreation : {FALSE}]

\* The steps of a run that has begun.
Substep ==
  \/ RunInternalSubstep
  \/ RunCLISubstep
  \/ RunCLISubstepConditionally
  \/ RunHubSubstep
  \/ HubReply
  \/ ScriptsDirError
  \/ Complete

\* Runs of gpupgrade initialize, one after the other.
InitStep ==
  /\ New(MockCluster)
  /\ reachable = [h \in AllHosts |-> FALSE]

NextStep ==
  \/ \E flags \in InitializeFlags : NewStep("initialize", flags)
  \/ Substep
  \/ HubExit
  \/ HubStart

SpecStep == InitStep /\ [][NextStep]_vars

\* Runs of gpupgrade initialize and gpupgrade revert, one after the other.
NextPhase ==
  \/ \E flags \in InitializeFlags : NewStep("initialize", flags)
  \/ \E flags \in RevertFlags : NewStep("revert", flags)
  \/ Substep
  \/ HubExit
  \/ HubStart

SpecPhase == InitStep /\ [][NextPhase]_vars

\* The body of the substep called name has run in this run.
Ran(name) == \E i \in stExec : Program[i].name = name

\* The step calls a named substep.
CallsNamed == AtSubstep({"cli", "cli_if"}) /\ stPos' = stPos + 1

\* The step ran the body of a substep, which returned out.
Returned(out) == stOut' # stOut /\ stOut'.out = out

\* The step is the return of Complete.
Completes == stPos = Len(Program) + 1 /\ stPos' = 0

\* The run before this one went through every substep and returned nil from
\* st.Complete: the phase is completed.
PhaseCompleted ==
  /\ stPos > 0
  /\ stLast = [set |-> TRUE, err |-> "", by |-> "Complete"]

\* C18: a named substep that is recorded as complete is passed over without
\* running its body or sending an RPC, and a run over a phase that the run
\* before it completed sends no RPC to the hub.
C18_NoRpcOnRerun ==
  [][/\ CallsNamed /\ store[Current.name] = "complete"
        => stExec' = stExec /\ stRpcs' = stRpcs
     /\ PhaseCompleted => stRpcs' = 0]_vars

\* The step ends a run.
Exits == stPos > 0 /\ stPos' = 0

\* C19: when the body of a substep has returned an ordinary error the run
\* holds it: no body runs and no RPC is sent after it, and the command
\* returns the error when it exits.
C19_FailureReturned ==
  [][/\ stPos \in DOMAIN Program /\ stErr = "error"
        => stExec' = stExec /\ stRpcs' = stRpcs
     /\ Exits /\ stErr = "error" => stLast'.err = "error"]_vars

\* C20: whenever the body of a substep returns Skip, the substep is recorded
\* as skipped, and the run holds no error and goes on with the next substep.
C20_EverySkipRecorded ==
  [][Returned("skip")
     => /\ Program[stOut'.at].name \in Substeps
        /\ store'[Program[stOut'.at].name] = "skipped"
        /\ stErr' = ""
        /\ stPos' = stOut'.at + 1]_vars

\* ------------------------------------------------------- initialize and revert

\* The step is a run that ends at the confirmation prompt: the operator declines.
Declined ==
  /\ stRun' = stRun + 1
  /\ stPos' = 0
  /\ stLast'.err \in {"", "canceled"}

\* No substep becomes failed in the step.
NoNewFailure == \A n \in Substeps : store'[n] = "failed" => store[n] = "failed"

\* C21: a declined confirmation ends the run before any substep: no body has
\* run, the status file is as it was, and revert returns no error. When the
\* body of a substep returns the Quit sentinel no substep becomes failed, and
\* the run holds Quit: until it ends no body runs, no RPC is sent and no
\* status is written.
C21_CancelAndQuit ==
  [][/\ Declined
        => /\ stExec' = {}
           /\ store' = store
           /\ stCmd' = "revert"
              => stLast' = [set |-> TRUE, err |-> "", by |-> "NewStep"]
     /\ stPos = 0 => stExec' \subseteq stExec
     /\ Returned("quit") => stErr' = "quit" /\ NoNewFailure
     /\ stPos \in DOMAIN Program /\ stErr = "quit"
        => /\ stExec' = stExec
           /\ stRpcs' = stRpcs
           /\ store' = store
           /\ stErr' = stErr]_vars

\* A run of initialize has ended in which the operator quit at the prompt of
\* the first data migration substep: no later body has run and the substep is
\* not failed.
C21_Witness ==
  /\ stPos = 0
  /\ stCmd = "initialize"
  /\ stOut = [at |-> 3, out |-> "quit"]
  /\ stExec = {1, 2, 3}
  /\ stLast = [set |-> TRUE, err |-> "quit", by |-> "Complete"]
  /\ store["generate_data_migration_scripts"] = "pending"

\* The step sends an RPC to the hub.
Sends == stRpcs' = stRpcs + 1

\* C22: the bodies of a run execute one at a time in the order of the program:
\* a body that runs is the one the run has come to, and every body that ran
\* before it comes earlier. While a hub substep waits for the reply of its RPC
\* nothing else runs or is sent, and the substep is over only when no RPC is
\* in flight. In initialize the InitializeCreateCluster RPC is sent only after
\* the body that sent Initialize has returned nil.
C22_Sequential ==
  [][/\ stExec' # stExec /\ stPos # 0
        => /\ stExec' = stExec \cup {stPos}
           /\ \A i \in stExec : i < stPos
     /\ stRpc # "none"
        => /\ ~Sends
           /\ \/ UNCHANGED <<stPos, stExec, store, stErr>>
              \/ /\ stRpc' = "none"
                 /\ stOut'.at = stPos
                 /\ stPos' = stPos + 1
     /\ AtSubstep({"hub"}) /\ stPos' = stPos + 1 => stRpc' = "none"
     /\ Sends /\ Current.name = "create_cluster"
        => /\ stOut = [at |-> 10, out |-> "nil"]
           /\ Program[10].name = "initialize"
           /\ stRpcs = 1]_vars

\* A run of initialize has succeeded after the replies of both RPCs.
C22_Witness ==
  /\ stPos = 0
  /\ stCmd = "initialize"
  /\ stLast = [set |-> TRUE, err |-> "", by |-> "Complete"]
  /\ stExec = 1..11
  /\ stRpcs = 2
  /\ stRpc = "none"
  /\ stOut = [at |-> 11, out |-> "nil"]

\* The step deletes the state directory.
Deletes == stateDir.exists /\ ~stateDir'.exists

\* C23: whenever a run deletes the state directory its store has been
\* disabled, and once a run has deleted it the run attempts no write of a
\* status: none before or after the bodies of the substeps that follow the
\* deletion, and the status file stays as the deletion left it.
C23_StoreDisabledBeforeDelete ==
  [][/\ Deletes => stCmd = "revert" /\ storeOff'
     /\ stDeleted /\ stPos # 0 => storeOff /\ store' = store
     /\ ~lateWrite']_vars

\* A revert has succeeded on the path of the temporary configuration file:
\* archive_log_directories deleted the state directory, and the bodies of the
\* two substeps after it ran without a write of their status.
C23_Witness ==
  /\ stPos = 0
  /\ stCmd = "revert"
  /\ stNoHub
  /\ ~stFlags.nonInteractive
  /\ stLast = [set |-> TRUE, err |-> "", by |-> "Complete"]
  /\ stExec = {1, 2, 3}
  /\ stDeleted
  /\ storeOff
  /\ ~lateWrite
  /\ store = Pending
  /\ store0 # Pending

\* The last run was a revert that went through its substeps and succeeded.
RevertDone ==
  /\ stPos = 0
  /\ stCmd = "revert"
  /\ stExec # {}
  /\ stLast = [set |-> TRUE, err |-> "", by |-> "Complete"]

\* C24: when revert completes without error the state directory is gone, and
\* the status file with it. It stays so until initialize is run again; that
\* run finds no record, and it runs the body of every named substep it calls
\* while it holds no error (the data migration substeps only when it is
\* interactive).
C24_RevertStartsAfresh ==
  [][/\ Completes /\ stCmd = "revert" /\ stErr = ""
        => ~stateDir.exists /\ store = Pending
     /\ RevertDone
        => /\ ~stateDir.exists
           /\ store = Pending
           /\ stCmd' = "initialize" /\ stRun' = stRun + 1 => store0' = Pending
     /\ /\ CallsNamed
        /\ stCmd = "initialize"
        /\ store0 = Pending
        /\ stErr = ""
        /\ Current.kind = "cli_if" => ~stFlags.nonInteractive
        => stPos \in stExec']_vars

\* A revert has succeeded after an initialize that failed in its first data
\* migration substep: the record of the failure is gone with the directory.
C24_Witness ==
  /\ RevertDone
  /\ store0["generate_data_migration_scripts"] = "failed"
  /\ ~stateDir.exists
  /\ store = Pending

\* --------------------------------------------- initialize, CreateStateDir races

\* What a run of initialize and revert keeps beside the state directory.
runVars ==
  <<stRun, stCmd, stNoHub, stFlags, stPos, stErr, store, store0, stExec, stAsked,
    stRpcs,
    stOut, stLast, hubRunning, stRpc, storeOff, stDeleted, lateWrite>>

notMkdir == <<hubSide, genVars, hostsRes, cfgVars, runVars, topoVars, tmpVars, codecVars, arVars, modeVars>>

\* A gpupgrade process runs initialize up to the return of CreateStateDir:
\* os.Mkdir is one system call.
InitializeBegin(p) ==
  /\ mkPc[p] = "idle"
  /\ \E r \in CreateStateDir(stateDir) :
       /\ stateDir' = r.dir
       /\ mkRes' = [mkRes EXCEPT ![p] = IF r.err = "" THEN "ok" ELSE "error"]
  /\ mkPc' = [mkPc EXCEPT ![p] = "returned"]
  /\ UNCHANGED notMkdir

\* initialize returns the error of CreateStateDir, or goes on to NewStep and
\* the substeps.
InitializeProceed(p) ==
  /\ mkPc[p] = "returned"
  /\ mkPc' = [mkPc EXCEPT ![p] = IF mkRes[p] = "ok" THEN "step" ELSE "idle"]
  /\ UNCHANGED <<notMkdir, stateDir, mkRes>>

\* The substeps of the process are over and initialize returns.
InitializeEnd(p) ==
  /\ mkPc[p] = "step"
  /\ mkPc' = [mkPc EXCEPT ![p] = "idle"]
  /\ mkRes' = [mkRes EXCEPT ![p] = "none"]
  /\ UNCHANGED <<notMkdir, stateDir>>

\* The state directory is deleted, as a revert does, whatever the initialize
\* invocations are doing.
StateDirDeleted ==
  /\ stateDir.exists
  /\ stateDir' = NoDir
  /\ UNCHANGED <<notMkdir, mkVars>>

NextMkdir ==
  \/ \E p \in Procs : InitializeBegin(p)
  \/ \E p \in Procs : InitializeProceed(p)
  \/ \E p \in Procs : InitializeEnd(p)
  \/ StateDirDeleted

SpecMkdir == InitStep /\ [][NextMkdir]_vars

\* The processes whose CreateStateDir has returned nil and whose initialize is
\* not over.
Admitted == {p \in Procs : mkRes[p] = "ok" /\ mkPc[p] \in {"returned", "step"}}

\* C25: of the initialize invocations that are running, at most one has got
\* nil from CreateStateDir and is in, or about to enter, the step workflow.
C25_AtMostOneInitialize == Cardinality(Admitted) <= 1

\* ------------------------------------------- the temporary configuration file

\* C26: the temporary configuration file is there only before the hub takes
\* over: while a hub runs that initialize has started (start_hub is recorded as
\* complete) the file is absent, and a revert that takes the path without the
\* hub runs in a state directory in which initialize has started no hub.
C26_TmpOnlyBeforeHub ==
  /\ hubRunning /\ store["start_hub"] = "complete" /\ stPos = 0
     => TmpConfig \notin stateDir.files
  /\ stCmd = "revert" /\ stPos # 0 /\ stNoHub
     => store0["start_hub"] # "complete"

\* --------------------------------------------------------------- the mutex

\* The positions of a thread between the Lock and the Unlock of Stop.
InStop == {"stop_close", "stop_wait", "stop_server", "stop_recv"}

\* The positions of a thread that holds the mutex.
Critical == InStop \cup {"ac_dial"}

\* The step closes a cached connection.
ClosesConn == \E h \in AllHosts : connState'[h] = "SHUTDOWN" /\ connState[h] # "SHUTDOWN"

\* C27: a thread in the dial loop of AgentConns or between the Lock and the
\* Unlock of Stop holds the mutex, and there is at most one such thread. A
\* connection is appended to the cache only by the thread that holds the
\* mutex in AgentConns, and closed only by the thread that holds it in Stop,
\* so never while another thread is inside Stop or in the dial loop. Start
\* installs its server in a step that takes the free mutex, and the gate is
\* set to nil only by the thread that holds the mutex in Stop.
C27_MutationsUnderMutex ==
  [][/\ \A t \in Threads : pc[t] \in Critical => mu = t
     /\ Cardinality({t \in Threads : pc[t] \in Critical}) <= 1
     /\ agentConns' # agentConns
        => /\ mu \in Threads
           /\ pc[mu] = "ac_dial"
           /\ \A t \in Threads : pc[t] \notin InStop
     /\ ClosesConn
        => /\ mu \in Threads
           /\ pc[mu] = "stop_close"
           /\ \A t \in Threads : pc[t] # "ac_dial"
     /\ server' \in Threads /\ server' # server
        => mu = NoThread /\ pc[server'] = "start_lock" /\ mu' = NoThread
     /\ stoppedNil' # stoppedNil
        => mu \in Threads /\ pc[mu] \in {"stop_server", "stop_recv"}]_vars

\* A Stop(true) is closing the cached connection while a call of AgentConns
\* waits for the mutex.
C27_Witness ==
  /\ agentConns # <<>>
  /\ \E t, u \in Threads :
       /\ pc[t] = "stop_wait"
       /\ mu = t
       /\ pc[u] = "ac_lock"

\* ------------------------------------------------- Stop and the RPC handlers

\* The calls that are RPC handlers of the hub, run by the grpc server.
HandlerOps == {"StopServices", "RestartAgents"}

\* Thread t returns from Stop in this step.
StopReturns(t) == pc[t] \in {"stop_server", "stop_recv"} /\ pc'[t] = "idle"

\* C28: Stop() returns only after all in-flight RPC handlers have drained: at
\* the moment Stop() returns, no RPC handler of the hub is still executing,
\* neither the StopServices handler that called it nor a handler that waits for
\* the mutex of the Server.
C28_StopDrainsHandlers ==
  [][\A t \in Threads :
       StopReturns(t) => \A u \in Threads : op[u] \notin HandlerOps]_vars

\* ------------------------------------------------------- closeAgentConns

\* C29: closing the agent connections is bounded: a Stop(true) that waits in
\* closeAgentConns for a connection to leave its state of before Close() is
\* never left waiting for a change that cannot come, whatever state the cached
\* connection was in, closed by an earlier Stop(true) included.
C29_CloseIsBounded ==
  \A t \in Threads :
    op[t] = "Stop(true)" /\ pc[t] = "stop_wait"
      => WaitForStateChange(connState[Head(todo[t])], curr[t])

\* ------------------------------------------------------- greenplum.NewCluster

\* Segment records in one list.
MaxSegs == 3

\* The dbids of the records.
DbIDs == 1..MaxSegs

\* The content ids of the records: the coordinator and one content.
ContentIDs == {Coordinator, 0}

\* greenplum.SegConfig, as far as the validation reads it.
SegConfig(d, c, r) == [dbID |-> d, contentID |-> c, role |-> r]

SegConfigs == {SegConfig(d, c, r) : d \in DbIDs, c \in ContentIDs, r \in {"p", "m"}}

\* The lists of at most MaxSegs segment records.
SegConfigLists == UNION {[1..n -> SegConfigs] : n \in 0..MaxSegs}

\* The list MockCluster builds its cluster from.
MockSegConfigs == <<SegConfig(1, Coordinator, "p"), SegConfig(2, 0, "p")>>

\* The records of the list that are coordinators.
Coordinators(segments) == {i \in DOMAIN segments : IsCoordinator(segments[i])}

\* Two records of the list have the same dbid.
DuplicateDbID(segments) ==
  \E i, j \in DOMAIN segments : i # j /\ segments[i].dbID = segments[j].dbID

\* Two records of the list claim the same (contentID, role).
DuplicateContentRole(segments) ==
  \E i, j \in DOMAIN segments :
    /\ i # j
    /\ segments[i].contentID = segments[j].contentID
    /\ segments[i].role = segments[j].role

\* greenplum.NewCluster: the cluster of the records, or an invalid topology
\* error and no cluster when there is no coordinator, more than one, a
\* duplicate dbid, or two segments with the same (contentID, role).
NewCluster(segments) ==
  IF \/ Coordinators(segments) = {}
     \/ Cardinality(Coordinators(segments)) > 1
     \/ DuplicateDbID(segments)
     \/ DuplicateContentRole(segments)
  THEN [set |-> TRUE, err |-> "InvalidTopology", cluster |-> {}]
  ELSE [set |-> TRUE, err |-> "", cluster |-> Range(segments)]

\* greenplum.NewCluster(segConfigs) is called.
CallNewCluster ==
  /\ ~newRes.set
  /\ newRes' = NewCluster(segConfigs)
  /\ UNCHANGED <<hubSide, genVars, hostsRes, cfgVars, stepVars, mkVars, segConfigs, tmpVars, codecVars, arVars, modeVars>>

\* NewCluster on every list of at most MaxSegs segment records.
InitTopo ==
  /\ NewServer(MockCluster)
  /\ reachable = [h \in AllHosts |-> FALSE]
  /\ NoCommand
  /\ NoTmp
  /\ NoParse
  /\ segConfigs \in SegConfigLists
  /\ newRes = NoNew

NextTopo == CallNewCluster

SpecTopo == InitTopo /\ [][NextTopo]_vars

\* ---------------------------------------- StopServices and the connections

\* C31: whenever StopServices invokes Stop(false), the cached agent connections
\* have already been closed, and when StopServices has completed no connection
\* of the cache remains open.
C31_ConnsClosedBeforeStop ==
  [][\A t \in Threads :
       /\ op[t] = "StopServices"
       /\ \/ pc[t] \notin StopPcs /\ pc'[t] \in StopPcs
          \/ pc'[t] = "idle"
       => \A h \in Range(agentConns') : connState'[h] = "SHUTDOWN"]_vars

\* ------------------------------------------- the generators, termination

\* C32: GenerateDataMigrationScripts returns for every combination of success
\* and failure of its databases: when its goroutines are gone the bar of every
\* database has completed (NumSeedScripts increments) or is aborted, so that
\* progressBar.Wait() and wg.Wait() return, and no goroutine is ever left at
\* its send on errChan with the channel full.
C32_GeneratorReturns ==
  /\ HasBars(genFn) /\ genTodo = <<>> /\ genWg = 0 => ProgressWait(bars)
  /\ \A u \in GenUnits :
       genPc[u] = "send" => Len(errChan) < Len(GenTargets(genFn))

\* ------------------------------------------------ initialize, its success

\* C33: the initialize command returns nil only through st.Complete, with no
\* error in the Step, that is when every substep has completed or been skipped;
\* an error met in the body of the command between two substeps makes it
\* return an error.
C33_SuccessOnlyThroughComplete ==
  [][stCmd = "initialize" /\ stPos > 0 /\ stPos' = 0 /\ stLast'.err = ""
     => stPos = Len(Program) + 1 /\ stErr = ""]_vars

\* ------------------------------------------- the temporary configuration file

\* Characters in the path of a GPHOME.
MaxPath == 3

Quote == "\""

\* The characters of the paths: a separator, a letter and a double quote.
PathChars == {"/", "g", Quote}

\* The paths given as --source-gphome: strings of at most MaxPath characters.
GPHomes == UNION {[1..n -> PathChars] : n \in 0..MaxPath}

\* The ports given as --source-port.
Ports == {5432, 15432}

\* %d of a port.
FormatInt(port) ==
  CASE port = 5432 -> "5432"
    [] port = 15432 -> "15432"

\* The text before the value of GPHome, and the text between that value and the
\* value of Port, in the format of CreateTemporaryConfigFile.
BeforeGPHome == <<"{", "\"GPHome\"", ":">>

BeforePort == <<",", "\"Port\"", ":">>

\* fmt.Sprintf(`{"GPHome": %s, "Port": %d}`, gphome, port): %s puts the
\* characters of gphome into the text as they are.
TemporaryConfigText(gphome, port) ==
  BeforeGPHome \o gphome \o BeforePort \o <<FormatInt(port), "}">>

\* The JSON string literal at the head of text: the characters between its
\* first character, a double quote, and the next double quote, and the text
\* that follows; ok is FALSE when the text does not begin with such a literal.
StringLiteral(text) ==
  IF text # <<>> /\ text[1] = Quote /\ \E j \in 2..Len(text) : text[j] = Quote
  THEN LET j == CHOOSE k \in 2..Len(text) :
                  text[k] = Quote /\ \A i \in 2..(k - 1) : text[i] # Quote
       IN  [ok |-> TRUE, value |-> SubSeq(text, 2, j - 1),
            rest |-> SubSeq(text, j + 1, Len(text))]
  ELSE [ok |-> FALSE, value |-> <<>>, rest |-> text]

\* The number a JSON number literal stands for; the ports fit the int32 field.
Int32Of(digits) ==
  IF \E p \in Ports : FormatInt(p) = digits
  THEN [ok |-> TRUE, value |-> CHOOSE p \in Ports : FormatInt(p) = digits]
  ELSE [ok |-> FALSE, value |-> 0]

\* TemporaryConfig.Load: json.NewDecoder(r).Decode(c). The text must be an
\* object whose GPHome is a string and whose Port is a number that fits an
\* int32 field; otherwise Decode returns an error and leaves c as it was.
Decode(text) ==
  LET head == SubSeq(text, 1, Len(BeforeGPHome))
      lit == StringLiteral(SubSeq(text, Len(BeforeGPHome) + 1, Len(text)))
      sep == SubSeq(lit.rest, 1, Len(BeforePort))
      tail == SubSeq(lit.rest, Len(BeforePort) + 1, Len(lit.rest))
  IN  IF /\ Len(text) >= Len(BeforeGPHome)
         /\ head = BeforeGPHome
         /\ lit.ok
         /\ Len(lit.rest) = Len(BeforePort) + 2
         /\ sep = BeforePort
         /\ tail[2] = "}"
         /\ Int32Of(tail[1]).ok
      THEN [set |-> TRUE, err |-> "", GPHome |-> lit.value,
            Port |-> Int32Of(tail[1]).value]
      ELSE [set |-> TRUE, err |-> "reading temporary configuration file",
            GPHome |-> <<>>, Port |-> 0]

\* LoadConfig(conf, path): the file is opened and decoded into conf.
LoadConfig(file) ==
  IF ~file.exists
  THEN [set |-> TRUE, err |-> "opening temporary configuration file",
        GPHome |-> <<>>, Port |-> 0]
  ELSE Decode(file.text)

\* CreateTemporaryConfigFile(gphome, port): a file that is there is left alone;
\* otherwise the text is written.
WriteTemporaryConfig ==
  /\ tmpText' = IF tmpText.exists
                THEN tmpText
                ELSE [exists |-> TRUE,
                      text |-> TemporaryConfigText(tmpArgs.gphome, tmpArgs.port)]
  /\ tmpText' # tmpText
  /\ UNCHANGED <<hubSide, genVars, hostsRes, cfgVars, stepVars, mkVars, topoVars,
                 codecVars, arVars, modeVars,
                 tmpArgs, tmpConf>>

\* revert finds the temporary file: commands.LoadConfig(tempConfig, path), whose
\* error is not looked at; sourceGPHome and sourcePort are taken from tempConfig.
RevertLoadConfig ==
  /\ tmpText.exists
  /\ ~tmpConf.set
  /\ tmpConf' = LoadConfig(tmpText)
  /\ UNCHANGED <<hubSide, genVars, hostsRes, cfgVars, stepVars, mkVars, topoVars,
                 codecVars, arVars, modeVars,
                 tmpArgs, tmpText>>

\* initialize is given a gphome and a port; it writes the temporary file, and a
\* revert loads it.
InitTmp ==
  /\ NewServer(MockCluster)
  /\ reachable = [h \in AllHosts |-> FALSE]
  /\ NoCommand
  /\ NoTopo
  /\ NoParse
  /\ tmpArgs \in [gphome : GPHomes, port : Ports]
  /\ tmpText = NoText
  /\ tmpConf = NoConf

NextTmp ==
  \/ WriteTemporaryConfig
  \/ RevertLoadConfig

SpecTmp == InitTmp /\ [][NextTmp]_vars

\* C34: the temporary configuration round-trips: after
\* CreateTemporaryConfigFile(gphome, port) on an absent file, LoadConfig on the
\* file succeeds and yields GPHome = gphome and Port = port, so that revert
\* without a hub runs its scripts with the values initialize was given.
C34_TemporaryConfigRoundTrips ==
  tmpConf.set
  => /\ tmpConf.err = ""
     /\ tmpConf.GPHome = tmpArgs.gphome
     /\ tmpConf.Port = tmpArgs.port

(***************************************************************************)
(* config.json, field by field: config.Create, Config.Save and             *)
(* Config.Load.  Save encodes the Config as a JSON object and Load decodes *)
(* the file into its receiver the way encoding/json does: a null leaves a  *)
(* nil pointer, an object is decoded into the cluster the receiver already *)
(* points to, and the entries of a JSON object are stored into the map     *)
(* the receiver already holds.                                             *)
(***************************************************************************)

\* The hub ports, coordinator ports and $GPHOME values of the calls.
HubPorts == {7527, 7528}

SourcePorts == {5432, 6000}

GPHomeDirs == {"", "/usr/local/gpdb5"}

\* A greenplum.SegConfig, with the fields of the literals of MockCluster.
SegConf(dbid, content, port, hostname, datadir, role) ==
  [DbID |-> dbid, ContentID |-> content, Port |-> port, Hostname |-> hostname,
   DataDir |-> datadir, Role |-> role]

\* greenplum.SegConfig{Port: port}.
PortOnly(port) == SegConf(0, 0, port, "", "", "")

\* make(greenplum.ContentToSegConfig) with the entries of m.
Made(m) == [nil |-> FALSE, m |-> m]

\* A *greenplum.Cluster that is not nil, with the fields that the source
\* assigns: GPHome and Primaries.
Cluster(gphome, primaries) ==
  [nil |-> FALSE, GPHome |-> gphome, Primaries |-> primaries]

\* The primaries of MockCluster, and those of a target cluster.
MockPrimaries ==
  Made((Coordinator :> SegConf(1, Coordinator, 15432, "mdw", "/data/master/gpseg-1", "p"))
       @@ (0 :> SegConf(2, 0, 25432, "sdw1", "/data/primary/gpseg0", "p")))

TargetPrimaries ==
  Made((Coordinator :> SegConf(1, Coordinator, 6000, "mdw", "/data/master/gpseg-1", "p"))
       @@ (0 :> SegConf(2, 0, 6001, "sdw1", "/data/primary/gpseg0", "p")))

\* The clusters that are saved as the source: none, &greenplum.Cluster{}, one
\* whose map is made and empty, one that holds the coordinator's port only,
\* and the cluster of MockCluster.
SourceClusters ==
  {NilCluster, Cluster("", NilPrimaries), Cluster("/usr/local/gpdb5", Made(<<>>)),
   Cluster("/usr/local/gpdb5", Made(Coordinator :> PortOnly(5432))),
   Cluster("/usr/local/gpdb5", MockPrimaries)}

\* The cluster that an initialized hub keeps as its target, and the one it
\* keeps as its intermediate cluster.
TargetCluster == Cluster("/usr/local/gpdb6", TargetPrimaries)

IntermediateCluster ==
  Cluster("/usr/local/gpdb6",
          Made(Coordinator :> SegConf(1, Coordinator, 50432, "mdw", "/data/master/gpseg-1", "p")))

\* The fields of a Config that are no cluster. backupdir.BackupDirs and
\* upgrade.ID are types of other packages: a value of each is one token. Mode
\* is a value of idl.Mode.
Settings ==
  {[LogArchiveDir |-> "", BackupDirs |-> "", HubPort |-> 7528, AgentPort |-> 0,
    Mode |-> 0, UseHbaHostnames |-> FALSE, UpgradeID |-> 0],
   [LogArchiveDir |-> "/home/gpadmin/gpAdminLogs/gpupgrade-1", BackupDirs |-> "/data/.gpupgrade",
    HubPort |-> 7527, AgentPort |-> 6416, Mode |-> 2, UseHbaHostnames |-> TRUE,
    UpgradeID |-> 7],
   [LogArchiveDir |-> "", BackupDirs |-> "/data/.gpupgrade",
    HubPort |-> 7527, AgentPort |-> 6416, Mode |-> 1, UseHbaHostnames |-> FALSE,
    UpgradeID |-> 8]}

\* A Config of the settings s and three clusters.
ConfigOf(s, source, intermediate, target) ==
  [LogArchiveDir |-> s.LogArchiveDir, BackupDirs |-> s.BackupDirs,
   Source |-> source, Intermediate |-> intermediate, Target |-> target,
   HubPort |-> s.HubPort, AgentPort |-> s.AgentPort, Mode |-> s.Mode,
   UseHbaHostnames |-> s.UseHbaHostnames, UpgradeID |-> s.UpgradeID]

\* The Configs that are saved: before and after the hub has initialized the
\* target cluster.
SavedConfigs ==
  {ConfigOf(s, source, created[1], created[2]) :
     s \in Settings, source \in SourceClusters,
     created \in {<<NilCluster, NilCluster>>,
                  <<IntermediateCluster, TargetCluster>>}}

\* The key of a content id in a JSON object, and the content id of a key.
KeyOf(content) == IF content = Coordinator THEN "-1" ELSE "0"

ContentOf(key) == IF key = "-1" THEN Coordinator ELSE 0

\* json.Encoder.Encode of a SegConfig, a ContentToSegConfig, a *Cluster and a
\* Config: a nil map and a nil pointer are encoded as null, a struct as an
\* object with a member for each field.
EncodeSegConfig(sc) ==
  [DbID |-> sc.DbID, ContentID |-> sc.ContentID, Port |-> sc.Port,
   Hostname |-> sc.Hostname, DataDir |-> sc.DataDir, Role |-> sc.Role]

EncodePrimaries(primaries) ==
  IF primaries.nil
  THEN NullObject
  ELSE [null |-> FALSE,
        o |-> [k \in {KeyOf(c) : c \in DOMAIN primaries.m} |->
                 EncodeSegConfig(primaries.m[ContentOf(k)])]]

EncodeCluster(cl) ==
  IF cl.nil
  THEN NullJson
  ELSE [null |-> FALSE, GPHome |-> cl.GPHome,
        Primaries |-> EncodePrimaries(cl.Primaries)]

EncodeConfig(c) ==
  [LogArchiveDir |-> c.LogArchiveDir, BackupDirs |-> c.BackupDirs,
   Source |-> EncodeCluster(c.Source),
   Intermediate |-> EncodeCluster(c.Intermediate),
   Target |-> EncodeCluster(c.Target), HubPort |-> c.HubPort,
   AgentPort |-> c.AgentPort, Mode |-> c.Mode,
   UseHbaHostnames |-> c.UseHbaHostnames, UpgradeID |-> c.UpgradeID]

\* json.Decoder.Decode of an object into an element of a map: the element is
\* decoded into a new SegConfig.
DecodeSegConfig(j) ==
  [DbID |-> j.DbID, ContentID |-> j.ContentID, Port |-> j.Port,
   Hostname |-> j.Hostname, DataDir |-> j.DataDir, Role |-> j.Role]

\* json.Decoder.Decode into a map: null makes the map nil; the members of an
\* object are stored into the map that is there (one is made when it is nil),
\* and the entries that the object does not name are kept.
DecodePrimaries(j, primaries) ==
  IF j.null
  THEN NilPrimaries
  ELSE Made([c \in DOMAIN primaries.m \cup {ContentOf(k) : k \in DOMAIN j.o} |->
               IF KeyOf(c) \in DOMAIN j.o
               THEN DecodeSegConfig(j.o[KeyOf(c)])
               ELSE primaries.m[c]])

\* A decoder that leaves every cluster nil.
DecodeNull(j, cl) == NilCluster

\* json.Decoder.Decode into a *Cluster: null sets the pointer to nil; an
\* object is decoded into the cluster pointed to, a new one if there is none.
DecodeCluster(j, cl) ==
  IF j.null THEN NilCluster
  ELSE Cluster(j.GPHome, DecodePrimaries(j.Primaries, cl.Primaries))

\* json.Decoder.Decode into a Config: each member of the object is decoded
\* into the field of its name.
DecodeConfig(j, c) ==
  [LogArchiveDir |-> j.LogArchiveDir, BackupDirs |-> j.BackupDirs,
   Source |-> DecodeCluster(j.Source, c.Source),
   Intermediate |-> DecodeCluster(j.Intermediate, c.Intermediate),
   Target |-> DecodeCluster(j.Target, c.Target), HubPort |-> j.HubPort,
   AgentPort |-> j.AgentPort, Mode |-> j.Mode,
   UseHbaHostnames |-> j.UseHbaHostnames, UpgradeID |-> j.UpgradeID]

\* The Config that Create bootstraps.
Bootstrap(hubPort, sourcePort, sourceGPHome) ==
  [ZeroConfig EXCEPT
     !.HubPort = hubPort,
     !.Source = Cluster(sourceGPHome, Made(Coordinator :> PortOnly(sourcePort)))]

\* What the calls of the config package leave alone.
notCodec ==
  <<hubSide, genVars, hostsRes, cfgVars, stepVars, mkVars, topoVars, tmpVars,
    arVars, modeVars>>

\* Config.Save: encode, then AtomicallyWrite, whose error is returned. A
\* write that fails leaves the file as it was.
Save(c) ==
  /\ \E written \in BOOLEAN :
       IF written
       THEN /\ cfgJson' = [exists |-> TRUE, v |-> EncodeConfig(c)]
            /\ cfgSaved' = [NoSaved EXCEPT !.by = "Save", !.conf = c]
            /\ cfgLast' = [op |-> "Save", err |-> "", existed |-> cfgJson.exists]
       ELSE /\ cfgLast' = [op |-> "Save", err |-> "write",
                           existed |-> cfgJson.exists]
            /\ UNCHANGED <<cfgJson, cfgSaved>>
  /\ UNCHANGED <<notCodec, cfgConf>>

\* config.Create: the error of PathExist when the check fails; nothing when
\* the file is there; else save the bootstrap and return what Save returns.
Create(hubPort, sourcePort, sourceGPHome) ==
  /\ \E statErr \in {"", "checking configuration path"}, written \in BOOLEAN :
       CASE statErr # "" ->
              /\ cfgLast' = [op |-> "Create", err |-> statErr,
                             existed |-> cfgJson.exists]
              /\ UNCHANGED <<cfgJson, cfgSaved>>
         [] statErr = "" /\ cfgJson.exists ->
              /\ cfgLast' = [op |-> "Create", err |-> "", existed |-> TRUE]
              /\ UNCHANGED <<cfgJson, cfgSaved>>
         [] statErr = "" /\ ~cfgJson.exists /\ written ->
              /\ cfgLast' = [op |-> "Create", err |-> "", existed |-> FALSE]
              /\ cfgJson' =
                   [exists |-> TRUE,
                    v |-> EncodeConfig(Bootstrap(hubPort, sourcePort, sourceGPHome))]
              /\ cfgSaved' =
                   [by |-> "Create",
                    conf |-> Bootstrap(hubPort, sourcePort, sourceGPHome),
                    hubPort |-> hubPort, sourcePort |-> sourcePort,
                    sourceGPHome |-> sourceGPHome]
         [] OTHER ->
              /\ cfgLast' = [op |-> "Create", err |-> "write", existed |-> FALSE]
              /\ UNCHANGED <<cfgJson, cfgSaved>>
  /\ UNCHANGED <<notCodec, cfgConf>>

\* Config.Load on the receiver c: open the file, decode it into c.
Load(c) ==
  /\ IF ~cfgJson.exists
     THEN /\ cfgLast' = [op |-> "Load", err |-> "opening configuration file",
                         existed |-> FALSE]
          /\ cfgConf' = [set |-> TRUE, into |-> c, conf |-> c]
     ELSE /\ cfgLast' = [op |-> "Load", err |-> "", existed |-> TRUE]
          /\ cfgConf' = [set |-> TRUE, into |-> c,
                         conf |-> DecodeConfig(cfgJson.v, c)]
  /\ UNCHANGED <<notCodec, cfgJson, cfgSaved>>

\* A Config that holds clusters and settings already.
Populated ==
  [ZeroConfig EXCEPT
     !.LogArchiveDir = "/home/gpadmin/gpAdminLogs/gpupgrade-0",
     !.Source = Cluster("/usr/local/gpdb5", MockPrimaries),
     !.Target = TargetCluster, !.HubPort = 7527, !.AgentPort = 6416,
     !.Mode = 2, !.UseHbaHostnames = TRUE, !.UpgradeID = 6]

\* The Configs that Load is called on: a new one, the one that was saved, and
\* one that holds clusters already.
Receivers == {ZeroConfig, cfgSaved.conf, Populated}

InitCodec ==
  /\ New(MockCluster)
  /\ reachable = [h \in AllHosts |-> FALSE]

NextCodec ==
  \/ \E c \in SavedConfigs : Save(c)
  \/ \E h \in HubPorts, p \in SourcePorts, g \in GPHomeDirs : Create(h, p, g)
  \/ \E c \in Receivers : Load(c)

SpecCodec == InitCodec /\ [][NextCodec]_vars

\* The last call was a Load that returned no error.
Loaded == cfgLast.op = "Load" /\ cfgLast.err = ""

\* The fields that Create bootstraps, in the Config that was loaded.
BootstrapLoaded ==
  /\ cfgConf.conf.HubPort = cfgSaved.hubPort
  /\ ~cfgConf.conf.Source.nil
  /\ cfgConf.conf.Source.GPHome = cfgSaved.sourceGPHome
  /\ ~cfgConf.conf.Source.Primaries.nil
  /\ Coordinator \in DOMAIN cfgConf.conf.Source.Primaries.m
  /\ cfgConf.conf.Source.Primaries.m[Coordinator].Port = cfgSaved.sourcePort
  /\ cfgConf.conf.Intermediate.nil
  /\ cfgConf.conf.Target.nil

\* A call of Create in which PathExist found config.json.
CreateFound ==
  /\ cfgLast'.op = "Create"
  /\ cfgJson.exists
  /\ cfgLast'.err # "checking configuration path"

\* The cluster that was loaded holds what the saved one holds: it is nil when
\* that one is, and else has its GPHome and each entry of its map.
HoldsCluster(loaded, saved) ==
  /\ loaded.nil = saved.nil
  /\ loaded.GPHome = saved.GPHome
  /\ loaded.Primaries.nil = saved.Primaries.nil
  /\ \A c \in DOMAIN saved.Primaries.m :
       /\ c \in DOMAIN loaded.Primaries.m
       /\ loaded.Primaries.m[c] = saved.Primaries.m[c]

\* The Config that was loaded holds what the saved one holds: the fields that
\* are no cluster are equal, and each cluster holds what the saved one holds.
HoldsSaved ==
  /\ \A f \in {"LogArchiveDir", "BackupDirs", "HubPort", "AgentPort", "Mode",
                "UseHbaHostnames", "UpgradeID"} :
       cfgConf.conf[f] = cfgSaved.conf[f]
  /\ \A f \in {"Source", "Intermediate", "Target"} :
       HoldsCluster(cfgConf.conf[f], cfgSaved.conf[f])

MaxTime == 2

MaxLine == 2

MaxReads == 2

Times == 1..MaxTime

\* The characters of the lines that are read: answers in both cases, a letter
\* that is no answer, white space, and two capitals outside ASCII: the Kelvin
\* sign, whose lower case is k, and U+00C1, whose lower case is U+00E1.
LineChars == {"a", "A", "c", "Q", "x", " ", "\f", "U+212A", "U+00C1"}

Lines == UNION {[1..n -> LineChars] : n \in 0..MaxLine}

\* reader.ReadString('\n') of a line: the line with its delimiter.
ReadString(line) == line \o <<"\n">>

\* A character is a string of one character; a character that a module
\* cannot hold is written as its code point, "U+00A0".

\* unicode.IsSpace: the white space of Latin-1 and the characters with the
\* Unicode property White_Space.
IsSpace(ch) ==
  ch \in
    {"\t", "\n", "U+000B", "\f", "\r", " ", "U+0085", "U+00A0", "U+1680",
     "U+2000", "U+2001", "U+2002", "U+2003", "U+2004", "U+2005", "U+2006",
     "U+2007", "U+2008", "U+2009", "U+200A", "U+2028", "U+2029", "U+202F",
     "U+205F", "U+3000"}

\* unicode.ToLower of one character: the simple lower-case mapping of the
\* Unicode tables, for every character that has one. Uppers and Lowers are the
\* letters of ASCII; UnicodeUppers are the 1367 characters outside ASCII that
\* unicode.ToLower changes, in the order of their code points, and
\* UnicodeLowers what it gives for each. Two of them give a letter of ASCII:
\* U+0130 gives i and the Kelvin sign U+212A gives k. A character that is in
\* neither table stands for itself.
Uppers ==
  <<"A", "B", "C", "D", "E", "F", "G", "H", "I", "J", "K", "L", "M", "N", "O",
    "P", "Q", "R", "S", "T", "U", "V", "W", "X", "Y", "Z">>

Lowers ==
  <<"a", "b", "c", "d", "e", "f", "g", "h", "i", "j", "k", "l", "m", "n", "o",
    "p", "q", "r", "s", "t", "u", "v", "w", "x", "y", "z">>

UnicodeUppers ==
  <<"U+00C0", "U+00C1", "U+00C2", "U+00C3", "U+00C4", "U+00C5", "U+00C6",
    "U+00C7", "U+00C8", "U+00C9", "U+00CA", "U+00CB", "U+00CC", "U+00CD",
    "U+00CE", "U+00CF", "U+00D0", "U+00D1", "U+00D2", "U+00D3", "U+00D4",
    "U+00D5", "U+00D6", "U+00D8", "U+00D9", "U+00DA", "U+00DB", "U+00DC",
    "U+00DD", "U+00DE", "U+0100", "U+0102", "U+0104", "U+0106", "U+0108",
    "U+010A", "U+010C", "U+010E", "U+0110", "U+0112", "U+0114", "U+0116",
    "U+0118", "U+011A", "U+011C", "U+011E", "U+0120", "U+0122", "U+0124",
    "U+0126", "U+0128", "U+012A", "U+012C", "U+012E", "U+0130", "U+0132",
    "U+0134", "U+0136", "U+0139", "U+013B", "U+013D", "U+013F", "U+0141",
    "U+0143", "U+0145", "U+0147", "U+014A", "U+014C", "U+014E", "U+0150",
    "U+0152", "U+0154", "U+0156", "U+0158", "U+015A", "U+015C", "U+015E",
    "U+0160", "U+0162", "U+0164", "U+0166", "U+0168", "U+016A", "U+016C",
    "U+016E", "U+0170", "U+0172", "U+0174", "U+0176", "U+0178", "U+0179",
    "U+017B", "U+017D", "U+0181", "U+0182", "U+0184", "U+0186", "U+0187",
    "U+0189", "U+018A", "U+018B", "U+018E", "U+018F", "U+0190", "U+0191",
    "U+0193", "U+0194", "U+0196", "U+0197", "U+0198", "U+019C", "U+019D",
    "U+019F", "U+01A0", "U+01A2", "U+01A4", "U+01A6", "U+01A7", "U+01A9",
    "U+01AC", "U+01AE", "U+01AF", "U+01B1", "U+01B2", "U+01B3", "U+01B5",
    "U+01B7", "U+01B8", "U+01BC", "U+01C4", "U+01C5", "U+01C7", "U+01C8",
    "U+01CA", "U+01CB", "U+01CD", "U+01CF", "U+01D1", "U+01D3", "U+01D5",
    "U+01D7", "U+01D9", "U+01DB", "U+01DE", "U+01E0", "U+01E2", "U+01E4",
    "U+01E6", "U+01E8", "U+01EA", "U+01EC", "U+01EE", "U+01F1", "U+01F2",
    "U+01F4", "U+01F6", "U+01F7", "U+01F8", "U+01FA", "U+01FC", "U+01FE",
    "U+0200", "U+0202", "U+0204", "U+0206", "U+0208", "U+020A", "U+020C",
    "U+020E", "U+0210", "U+0212", "U+0214", "U+0216", "U+0218", "U+021A",
    "U+021C", "U+021E", "U+0220", "U+0222", "U+0224", "U+0226", "U+0228",
    "U+022A", "U+022C", "U+022E", "U+0230", "U+0232", "U+023A", "U+023B",
    "U+023D", "U+023E", "U+0241", "U+0243", "U+0244", "U+0245", "U+0246",
    "U+0248", "U+024A", "U+024C", "U+024E", "U+0370", "U+0372", "U+0376",
    "U+037F", "U+0386", "U+0388", "U+0389", "U+038A", "U+038C", "U+038E",
    "U+038F", "U+0391", "U+0392", "U+0393", "U+0394", "U+0395", "U+0396",
    "U+0397", "U+0398", "U+0399", "U+039A", "U+039B", "U+039C", "U+039D",
    "U+039E", "U+039F", "U+03A0", "U+03A1", "U+03A3", "U+03A4", "U+03A5",
    "U+03A6", "U+03A7", "U+03A8", "U+03A9", "U+03AA", "U+03AB", "U+03CF",
    "U+03D8", "U+03DA", "U+03DC", "U+03DE", "U+03E0", "U+03E2", "U+03E4",
    "U+03E6", "U+03E8", "U+03EA", "U+03EC", "U+03EE", "U+03F4", "U+03F7",
    "U+03F9", "U+03FA", "U+03FD", "U+03FE", "U+03FF", "U+0400", "U+0401",
    "U+0402", "U+0403", "U+0404", "U+0405", "U+0406", "U+0407", "U+0408",
    "U+0409", "U+040A", "U+040B", "U+040C", "U+040D", "U+040E", "U+040F",
    "U+0410", "U+0411", "U+0412", "U+0413", "U+0414", "U+0415", "U+0416",
    "U+0417", "U+0418", "U+0419", "U+041A", "U+041B", "U+041C", "U+041D",
    "U+041E", "U+041F", "U+0420", "U+0421", "U+0422", "U+0423", "U+0424",
    "U+0425", "U+0426", "U+0427", "U+0428", "U+0429", "U+042A", "U+042B",
    "U+042C", "U+042D", "U+042E", "U+042F", "U+0460", "U+0462", "U+0464",
    "U+0466", "U+0468", "U+046A", "U+046C", "U+046E", "U+0470", "U+0472",
    "U+0474", "U+0476", "U+0478", "U+047A", "U+047C", "U+047E", "U+0480",
    "U+048A", "U+048C", "U+048E", "U+0490", "U+0492", "U+0494", "U+0496",
    "U+0498", "U+049A", "U+049C", "U+049E", "U+04A0", "U+04A2", "U+04A4",
    "U+04A6", "U+04A8", "U+04AA", "U+04AC", "U+04AE", "U+04B0", "U+04B2",
    "U+04B4", "U+04B6", "U+04B8", "U+04BA", "U+04BC", "U+04BE", "U+04C0",
    "U+04C1", "U+04C3", "U+04C5", "U+04C7", "U+04C9", "U+04CB", "U+04CD",
    "U+04D0", "U+04D2", "U+04D4", "U+04D6", "U+04D8", "U+04DA", "U+04DC",
    "U+04DE", "U+04E0", "U+04E2", "U+04E4", "U+04E6", "U+04E8", "U+04EA",
    "U+04EC", "U+04EE", "U+04F0", "U+04F2", "U+04F4", "U+04F6", "U+04F8",
    "U+04FA", "U+04FC", "U+04FE", "U+0500", "U+0502", "U+0504", "U+0506",
    "U+0508", "U+050A", "U+050C", "U+050E", "U+0510", "U+0512", "U+0514",
    "U+0516", "U+0518", "U+051A", "U+051C", "U+051E", "U+0520", "U+0522",
    "U+0524", "U+0526", "U+0528", "U+052A", "U+052C", "U+052E", "U+0531",
    "U+0532", "U+0533", "U+0534", "U+0535", "U+0536", "U+0537", "U+0538",
    "U+0539", "U+053A", "U+053B", "U+053C", "U+053D", "U+053E", "U+053F",
    "U+0540", "U+0541", "U+0542", "U+0543", "U+0544", "U+0545", "U+0546",
    "U+0547", "U+0548", "U+0549", "U+054A", "U+054B", "U+054C", "U+054D",
    "U+054E", "U+054F", "U+0550", "U+0551", "U+0552", "U+0553", "U+0554",
    "U+0555", "U+0556", "U+10A0", "U+10A1", "U+10A2", "U+10A3", "U+10A4",
    "U+10A5", "U+10A6", "U+10A7", "U+10A8", "U+10A9", "U+10AA", "U+10AB",
    "U+10AC", "U+10AD", "U+10AE", "U+10AF", "U+10B0", "U+10B1", "U+10B2",
    "U+10B3", "U+10B4", "U+10B5", "U+10B6", "U+10B7", "U+10B8", "U+10B9",
    "U+10BA", "U+10BB", "U+10BC", "U+10BD", "U+10BE", "U+10BF", "U+10C0",
    "U+10C1", "U+10C2", "U+10C3", "U+10C4", "U+10C5", "U+10C7", "U+10CD",
    "U+13A0", "U+13A1", "U+13A2", "U+13A3", "U+13A4", "U+13A5", "U+13A6",
    "U+13A7", "U+13A8", "U+13A9", "U+13AA", "U+13AB", "U+13AC", "U+13AD",
    "U+13AE", "U+13AF", "U+13B0", "U+13B1", "U+13B2", "U+13B3", "U+13B4",
    "U+13B5", "U+13B6", "U+13B7", "U+13B8", "U+13B9", "U+13BA", "U+13BB",
    "U+13BC", "U+13BD", "U+13BE", "U+13BF", "U+13C0", "U+13C1", "U+13C2",
    "U+13C3", "U+13C4", "U+13C5", "U+13C6", "U+13C7", "U+13C8", "U+13C9",
    "U+13CA", "U+13CB", "U+13CC", "U+13CD", "U+13CE", "U+13CF", "U+13D0",
    "U+13D1", "U+13D2", "U+13D3", "U+13D4", "U+13D5", "U+13D6", "U+13D7",
    "U+13D8", "U+13D9", "U+13DA", "U+13DB", "U+13DC", "U+13DD", "U+13DE",
    "U+13DF", "U+13E0", "U+13E1", "U+13E2", "U+13E3", "U+13E4", "U+13E5",
    "U+13E6", "U+13E7", "U+13E8", "U+13E9", "U+13EA", "U+13EB", "U+13EC",
    "U+13ED", "U+13EE", "U+13EF", "U+13F0", "U+13F1", "U+13F2", "U+13F3",
    "U+13F4", "U+13F5", "U+1C90", "U+1C91", "U+1C92", "U+1C93", "U+1C94",
    "U+1C95", "U+1C96", "U+1C97", "U+1C98", "U+1C99", "U+1C9A", "U+1C9B",
    "U+1C9C", "U+1C9D", "U+1C9E", "U+1C9F", "U+1CA0", "U+1CA1", "U+1CA2",
    "U+1CA3", "U+1CA4", "U+1CA5", "U+1CA6", "U+1CA7", "U+1CA8", "U+1CA9",
    "U+1CAA", "U+1CAB", "U+1CAC", "U+1CAD", "U+1CAE", "U+1CAF", "U+1CB0",
    "U+1CB1", "U+1CB2", "U+1CB3", "U+1CB4", "U+1CB5", "U+1CB6", "U+1CB7",
    "U+1CB8", "U+1CB9", "U+1CBA", "U+1CBD", "U+1CBE", "U+1CBF", "U+1E00",
    "U+1E02", "U+1E04", "U+1E06", "U+1E08", "U+1E0A", "U+1E0C", "U+1E0E",
    "U+1E10", "U+1E12", "U+1E14", "U+1E16", "U+1E18", "U+1E1A", "U+1E1C",
    "U+1E1E", "U+1E20", "U+1E22", "U+1E24", "U+1E26", "U+1E28", "U+1E2A",
    "U+1E2C", "U+1E2E", "U+1E30", "U+1E32", "U+1E34", "U+1E36", "U+1E38",
    "U+1E3A", "U+1E3C", "U+1E3E", "U+1E40", "U+1E42", "U+1E44", "U+1E46",
    "U+1E48", "U+1E4A", "U+1E4C", "U+1E4E", "U+1E50", "U+1E52", "U+1E54",
    "U+1E56", "U+1E58", "U+1E5A", "U+1E5C", "U+1E5E", "U+1E60", "U+1E62",
    "U+1E64", "U+1E66", "U+1E68", "U+1E6A", "U+1E6C", "U+1E6E", "U+1E70",
    "U+1E72", "U+1E74", "U+1E76", "U+1E78", "U+1E7A", "U+1E7C", "U+1E7E",
    "U+1E80", "U+1E82", "U+1E84", "U+1E86", "U+1E88", "U+1E8A", "U+1E8C",
    "U+1E8E", "U+1E90", "U+1E92", "U+1E94", "U+1E9E", "U+1EA0", "U+1EA2",
    "U+1EA4", "U+1EA6", "U+1EA8", "U+1EAA", "U+1EAC", "U+1EAE", "U+1EB0",
    "U+1EB2", "U+1EB4", "U+1EB6", "U+1EB8", "U+1EBA", "U+1EBC", "U+1EBE",
    "U+1EC0", "U+1EC2", "U+1EC4", "U+1EC6", "U+1EC8", "U+1ECA", "U+1ECC",
    "U+1ECE", "U+1ED0", "U+1ED2", "U+1ED4", "U+1ED6", "U+1ED8", "U+1EDA",
    "U+1EDC", "U+1EDE", "U+1EE0", "U+1EE2", "U+1EE4", "U+1EE6", "U+1EE8",
    "U+1EEA", "U+1EEC", "U+1EEE", "U+1EF0", "U+1EF2", "U+1EF4", "U+1EF6",
    "U+1EF8", "U+1EFA", "U+1EFC", "U+1EFE", "U+1F08", "U+1F09", "U+1F0A",
    "U+1F0B", "U+1F0C", "U+1F0D", "U+1F0E", "U+1F0F", "U+1F18", "U+1F19",
    "U+1F1A", "U+1F1B", "U+1F1C", "U+1F1D", "U+1F28", "U+1F29", "U+1F2A",
    "U+1F2B", "U+1F2C", "U+1F2D", "U+1F2E", "U+1F2F", "U+1F38", "U+1F39",
    "U+1F3A", "U+1F3B", "U+1F3C", "U+1F3D", "U+1F3E", "U+1F3F", "U+1F48",
    "U+1F49", "U+1F4A", "U+1F4B", "U+1F4C", "U+1F4D", "U+1F59", "U+1F5B",
    "U+1F5D", "U+1F5F", "U+1F68", "U+1F69", "U+1F6A", "U+1F6B", "U+1F6C",
    "U+1F6D", "U+1F6E", "U+1F6F", "U+1F88", "U+1F89", "U+1F8A", "U+1F8B",
    "U+1F8C", "U+1F8D", "U+1F8E", "U+1F8F", "U+1F98", "U+1F99", "U+1F9A",
    "U+1F9B", "U+1F9C", "U+1F9D", "U+1F9E", "U+1F9F", "U+1FA8", "U+1FA9",
    "U+1FAA", "U+1FAB", "U+1FAC", "U+1FAD", "U+1FAE", "U+1FAF", "U+1FB8",
    "U+1FB9", "U+1FBA", "U+1FBB", "U+1FBC", "U+1FC8", "U+1FC9", "U+1FCA",
    "U+1FCB", "U+1FCC", "U+1FD8", "U+1FD9", "U+1FDA", "U+1FDB", "U+1FE8",
    "U+1FE9", "U+1FEA", "U+1FEB", "U+1FEC", "U+1FF8", "U+1FF9", "U+1FFA",
    "U+1FFB", "U+1FFC", "U+2126", "U+212A", "U+212B", "U+2132", "U+2160",
    "U+2161", "U+2162", "U+2163", "U+2164", "U+2165", "U+2166", "U+2167",
    "U+2168", "U+2169", "U+216A", "U+216B", "U+216C", "U+216D", "U+216E",
    "U+216F", "U+2183", "U+24B6", "U+24B7", "U+24B8", "U+24B9", "U+24BA",
    "U+24BB", "U+24BC", "U+24BD", "U+24BE", "U+24BF", "U+24C0", "U+24C1",
    "U+24C2", "U+24C3", "U+24C4", "U+24C5", "U+24C6", "U+24C7", "U+24C8",
    "U+24C9", "U+24CA", "U+24CB", "U+24CC", "U+24CD", "U+24CE", "U+24CF",
    "U+2C00", "U+2C01", "U+2C02", "U+2C03", "U+2C04", "U+2C05", "U+2C06",
    "U+2C07", "U+2C08", "U+2C09", "U+2C0A", "U+2C0B", "U+2C0C", "U+2C0D",
    "U+2C0E", "U+2C0F", "U+2C10", "U+2C11", "U+2C12", "U+2C13", "U+2C14",
    "U+2C15", "U+2C16", "U+2C17", "U+2C18", "U+2C19", "U+2C1A", "U+2C1B",
    "U+2C1C", "U+2C1D", "U+2C1E", "U+2C1F", "U+2C20", "U+2C21", "U+2C22",
    "U+2C23", "U+2C24", "U+2C25", "U+2C26", "U+2C27", "U+2C28", "U+2C29",
    "U+2C2A", "U+2C2B", "U+2C2C", "U+2C2D", "U+2C2E", "U+2C60", "U+2C62",
    "U+2C63", "U+2C64", "U+2C67", "U+2C69", "U+2C6B", "U+2C6D", "U+2C6E",
    "U+2C6F", "U+2C70", "U+2C72", "U+2C75", "U+2C7E", "U+2C7F", "U+2C80",
    "U+2C82", "U+2C84", "U+2C86", "U+2C88", "U+2C8A", "U+2C8C", "U+2C8E",
    "U+2C90", "U+2C92", "U+2C94", "U+2C96", "U+2C98", "U+2C9A", "U+2C9C",
    "U+2C9E", "U+2CA0", "U+2CA2", "U+2CA4", "U+2CA6", "U+2CA8", "U+2CAA",
    "U+2CAC", "U+2CAE", "U+2CB0", "U+2CB2", "U+2CB4", "U+2CB6", "U+2CB8",
    "U+2CBA", "U+2CBC", "U+2CBE", "U+2CC0", "U+2CC2", "U+2CC4", "U+2CC6",
    "U+2CC8", "U+2CCA", "U+2CCC", "U+2CCE", "U+2CD0", "U+2CD2", "U+2CD4",
    "U+2CD6", "U+2CD8", "U+2CDA", "U+2CDC", "U+2CDE", "U+2CE0", "U+2CE2",
    "U+2CEB", "U+2CED", "U+2CF2", "U+A640", "U+A642", "U+A644", "U+A646",
    "U+A648", "U+A64A", "U+A64C", "U+A64E", "U+A650", "U+A652", "U+A654",
    "U+A656", "U+A658", "U+A65A", "U+A65C", "U+A65E", "U+A660", "U+A662",
    "U+A664", "U+A666", "U+A668", "U+A66A", "U+A66C", "U+A680", "U+A682",
    "U+A684", "U+A686", "U+A688", "U+A68A", "U+A68C", "U+A68E", "U+A690",
    "U+A692", "U+A694", "U+A696", "U+A698", "U+A69A", "U+A722", "U+A724",
    "U+A726", "U+A728", "U+A72A", "U+A72C", "U+A72E", "U+A732", "U+A734",
    "U+A736", "U+A738", "U+A73A", "U+A73C", "U+A73E", "U+A740", "U+A742",
    "U+A744", "U+A746", "U+A748", "U+A74A", "U+A74C", "U+A74E", "U+A750",
    "U+A752", "U+A754", "U+A756", "U+A758", "U+A75A", "U+A75C", "U+A75E",
    "U+A760", "U+A762", "U+A764", "U+A766", "U+A768", "U+A76A", "U+A76C",
    "U+A76E", "U+A779", "U+A77B", "U+A77D", "U+A77E", "U+A780", "U+A782",
    "U+A784", "U+A786", "U+A78B", "U+A78D", "U+A790", "U+A792", "U+A796",
    "U+A798", "U+A79A", "U+A79C", "U+A79E", "U+A7A0", "U+A7A2", "U+A7A4",
    "U+A7A6", "U+A7A8", "U+A7AA", "U+A7AB", "U+A7AC", "U+A7AD", "U+A7AE",
    "U+A7B0", "U+A7B1", "U+A7B2", "U+A7B3", "U+A7B4", "U+A7B6", "U+A7B8",
    "U+A7BA", "U+A7BC", "U+A7BE", "U+A7C2", "U+A7C4", "U+A7C5", "U+A7C6",
    "U+A7C7", "U+A7C9", "U+A7F5", "U+FF21", "U+FF22", "U+FF23", "U+FF24",
    "U+FF25", "U+FF26", "U+FF27", "U+FF28", "U+FF29", "U+FF2A", "U+FF2B",
    "U+FF2C", "U+FF2D", "U+FF2E", "U+FF2F", "U+FF30", "U+FF31", "U+FF32",
    "U+FF33", "U+FF34", "U+FF35", "U+FF36", "U+FF37", "U+FF38", "U+FF39",
    "U+FF3A", "U+10400", "U+10401", "U+10402", "U+10403", "U+10404",
    "U+10405", "U+10406", "U+10407", "U+10408", "U+10409", "U+1040A",
    "U+1040B", "U+1040C", "U+1040D", "U+1040E", "U+1040F", "U+10410",
    "U+10411", "U+10412", "U+10413", "U+10414", "U+10415", "U+10416",
    "U+10417", "U+10418", "U+10419", "U+1041A", "U+1041B", "U+1041C",
    "U+1041D", "U+1041E", "U+1041F", "U+10420", "U+10421", "U+10422",
    "U+10423", "U+10424", "U+10425", "U+10426", "U+10427", "U+104B0",
    "U+104B1", "U+104B2", "U+104B3", "U+104B4", "U+104B5", "U+104B6",
    "U+104B7", "U+104B8", "U+104B9", "U+104BA", "U+104BB", "U+104BC",
    "U+104BD", "U+104BE", "U+104BF", "U+104C0", "U+104C1", "U+104C2",
    "U+104C3", "U+104C4", "U+104C5", "U+104C6", "U+104C7", "U+104C8",
    "U+104C9", "U+104CA", "U+104CB", "U+104CC", "U+104CD", "U+104CE",
    "U+104CF", "U+104D0", "U+104D1", "U+104D2", "U+104D3", "U+10C80",
    "U+10C81", "U+10C82", "U+10C83", "U+10C84", "U+10C85", "U+10C86",
    "U+10C87", "U+10C88", "U+10C89", "U+10C8A", "U+10C8B", "U+10C8C",
    "U+10C8D", "U+10C8E", "U+10C8F", "U+10C90", "U+10C91", "U+10C92",
    "U+10C93", "U+10C94", "U+10C95", "U+10C96", "U+10C97", "U+10C98",
    "U+10C99", "U+10C9A", "U+10C9B", "U+10C9C", "U+10C9D", "U+10C9E",
    "U+10C9F", "U+10CA0", "U+10CA1", "U+10CA2", "U+10CA3", "U+10CA4",
    "U+10CA5", "U+10CA6", "U+10CA7", "U+10CA8", "U+10CA9", "U+10CAA",
    "U+10CAB", "U+10CAC", "U+10CAD", "U+10CAE", "U+10CAF", "U+10CB0",
    "U+10CB1", "U+10CB2", "U+118A0", "U+118A1", "U+118A2", "U+118A3",
    "U+118A4", "U+118A5", "U+118A6", "U+118A7", "U+118A8", "U+118A9",
    "U+118AA", "U+118AB", "U+118AC", "U+118AD", "U+118AE", "U+118AF",
    "U+118B0", "U+118B1", "U+118B2", "U+118B3", "U+118B4", "U+118B5",
    "U+118B6", "U+118B7", "U+118B8", "U+118B9", "U+118BA", "U+118BB",
    "U+118BC", "U+118BD", "U+118BE", "U+118BF", "U+16E40", "U+16E41",
    "U+16E42", "U+16E43", "U+16E44", "U+16E45", "U+16E46", "U+16E47",
    "U+16E48", "U+16E49", "U+16E4A", "U+16E4B", "U+16E4C", "U+16E4D",
    "U+16E4E", "U+16E4F", "U+16E50", "U+16E51", "U+16E52", "U+16E53",
    "U+16E54", "U+16E55", "U+16E56", "U+16E57", "U+16E58", "U+16E59",
    "U+16E5A", "U+16E5B", "U+16E5C", "U+16E5D", "U+16E5E", "U+16E5F",
    "U+1E900", "U+1E901", "U+1E902", "U+1E903", "U+1E904", "U+1E905",
    "U+1E906", "U+1E907", "U+1E908", "U+1E909", "U+1E90A", "U+1E90B",
    "U+1E90C", "U+1E90D", "U+1E90E", "U+1E90F", "U+1E910", "U+1E911",
    "U+1E912", "U+1E913", "U+1E914", "U+1E915", "U+1E916", "U+1E917",
    "U+1E918", "U+1E919", "U+1E91A", "U+1E91B", "U+1E91C", "U+1E91D",
    "U+1E91E", "U+1E91F", "U+1E920", "U+1E921">>

UnicodeLowers ==
  <<"U+00E0", "U+00E1", "U+00E2", "U+00E3", "U+00E4", "U+00E5", "U+00E6",
    "U+00E7", "U+00E8", "U+00E9", "U+00EA", "U+00EB", "U+00EC", "U+00ED",
    "U+00EE", "U+00EF", "U+00F0", "U+00F1", "U+00F2", "U+00F3", "U+00F4",
    "U+00F5", "U+00F6", "U+00F8", "U+00F9", "U+00FA", "U+00FB", "U+00FC",
    "U+00FD", "U+00FE", "U+0101", "U+0103", "U+0105", "U+0107", "U+0109",
    "U+010B", "U+010D", "U+010F", "U+0111", "U+0113", "U+0115", "U+0117",
    "U+0119", "U+011B", "U+011D", "U+011F", "U+0121", "U+0123", "U+0125",
    "U+0127", "U+0129", "U+012B", "U+012D", "U+012F", "i", "U+0133", "U+0135",
    "U+0137", "U+013A", "U+013C", "U+013E", "U+0140", "U+0142", "U+0144",
    "U+0146", "U+0148", "U+014B", "U+014D", "U+014F", "U+0151", "U+0153",
    "U+0155", "U+0157", "U+0159", "U+015B", "U+015D", "U+015F", "U+0161",
    "U+0163", "U+0165", "U+0167", "U+0169", "U+016B", "U+016D", "U+016F",
    "U+0171", "U+0173", "U+0175", "U+0177", "U+00FF", "U+017A", "U+017C",
    "U+017E", "U+0253", "U+0183", "U+0185", "U+0254", "U+0188", "U+0256",
    "U+0257", "U+018C", "U+01DD", "U+0259", "U+025B", "U+0192", "U+0260",
    "U+0263", "U+0269", "U+0268", "U+0199", "U+026F", "U+0272", "U+0275",
    "U+01A1", "U+01A3", "U+01A5", "U+0280", "U+01A8", "U+0283", "U+01AD",
    "U+0288", "U+01B0", "U+028A", "U+028B", "U+01B4", "U+01B6", "U+0292",
    "U+01B9", "U+01BD", "U+01C6", "U+01C6", "U+01C9", "U+01C9", "U+01CC",
    "U+01CC", "U+01CE", "U+01D0", "U+01D2", "U+01D4", "U+01D6", "U+01D8",
    "U+01DA", "U+01DC", "U+01DF", "U+01E1", "U+01E3", "U+01E5", "U+01E7",
    "U+01E9", "U+01EB", "U+01ED", "U+01EF", "U+01F3", "U+01F3", "U+01F5",
    "U+0195", "U+01BF", "U+01F9", "U+01FB", "U+01FD", "U+01FF", "U+0201",
    "U+0203", "U+0205", "U+0207", "U+0209", "U+020B", "U+020D", "U+020F",
    "U+0211", "U+0213", "U+0215", "U+0217", "U+0219", "U+021B", "U+021D",
    "U+021F", "U+019E", "U+0223", "U+0225", "U+0227", "U+0229", "U+022B",
    "U+022D", "U+022F", "U+0231", "U+0233", "U+2C65", "U+023C", "U+019A",
    "U+2C66", "U+0242", "U+0180", "U+0289", "U+028C", "U+0247", "U+0249",
    "U+024B", "U+024D", "U+024F", "U+0371", "U+0373", "U+0377", "U+03F3",
    "U+03AC", "U+03AD", "U+03AE", "U+03AF", "U+03CC", "U+03CD", "U+03CE",
    "U+03B1", "U+03B2", "U+03B3", "U+03B4", "U+03B5", "U+03B6", "U+03B7",
    "U+03B8", "U+03B9", "U+03BA", "U+03BB", "U+03BC", "U+03BD", "U+03BE",
    "U+03BF", "U+03C0", "U+03C1", "U+03C3", "U+03C4", "U+03C5", "U+03C6",
    "U+03C7", "U+03C8", "U+03C9", "U+03CA", "U+03CB", "U+03D7", "U+03D9",
    "U+03DB", "U+03DD", "U+03DF", "U+03E1", "U+03E3", "U+03E5", "U+03E7",
    "U+03E9", "U+03EB", "U+03ED", "U+03EF", "U+03B8", "U+03F8", "U+03F2",
    "U+03FB", "U+037B", "U+037C", "U+037D", "U+0450", "U+0451", "U+0452",
    "U+0453", "U+0454", "U+0455", "U+0456", "U+0457", "U+0458", "U+0459",
    "U+045A", "U+045B", "U+045C", "U+045D", "U+045E", "U+045F", "U+0430",
    "U+0431", "U+0432", "U+0433", "U+0434", "U+0435", "U+0436", "U+0437",
    "U+0438", "U+0439", "U+043A", "U+043B", "U+043C", "U+043D", "U+043E",
    "U+043F", "U+0440", "U+0441", "U+0442", "U+0443", "U+0444", "U+0445",
    "U+0446", "U+0447", "U+0448", "U+0449", "U+044A", "U+044B", "U+044C",
    "U+044D", "U+044E", "U+044F", "U+0461", "U+0463", "U+0465", "U+0467",
    "U+0469", "U+046B", "U+046D", "U+046F", "U+0471", "U+0473", "U+0475",
    "U+0477", "U+0479", "U+047B", "U+047D", "U+047F", "U+0481", "U+048B",
    "U+048D", "U+048F", "U+0491", "U+0493", "U+0495", "U+0497", "U+0499",
    "U+049B", "U+049D", "U+049F", "U+04A1", "U+04A3", "U+04A5", "U+04A7",
    "U+04A9", "U+04AB", "U+04AD", "U+04AF", "U+04B1", "U+04B3", "U+04B5",
    "U+04B7", "U+04B9", "U+04BB", "U+04BD", "U+04BF", "U+04CF", "U+04C2",
    "U+04C4", "U+04C6", "U+04C8", "U+04CA", "U+04CC", "U+04CE", "U+04D1",
    "U+04D3", "U+04D5", "U+04D7", "U+04D9", "U+04DB", "U+04DD", "U+04DF",
    "U+04E1", "U+04E3", "U+04E5", "U+04E7", "U+04E9", "U+04EB", "U+04ED",
    "U+04EF", "U+04F1", "U+04F3", "U+04F5", "U+04F7", "U+04F9", "U+04FB",
    "U+04FD", "U+04FF", "U+0501", "U+0503", "U+0505", "U+0507", "U+0509",
    "U+050B", "U+050D", "U+050F", "U+0511", "U+0513", "U+0515", "U+0517",
    "U+0519", "U+051B", "U+051D", "U+051F", "U+0521", "U+0523", "U+0525",
    "U+0527", "U+0529", "U+052B", "U+052D", "U+052F", "U+0561", "U+0562",
    "U+0563", "U+0564", "U+0565", "U+0566", "U+0567", "U+0568", "U+0569",
    "U+056A", "U+056B", "U+056C", "U+056D", "U+056E", "U+056F", "U+0570",
    "U+0571", "U+0572", "U+0573", "U+0574", "U+0575", "U+0576", "U+0577",
    "U+0578", "U+0579", "U+057A", "U+057B", "U+057C", "U+057D", "U+057E",
    "U+057F", "U+0580", "U+0581", "U+0582", "U+0583", "U+0584", "U+0585",
    "U+0586", "U+2D00", "U+2D01", "U+2D02", "U+2D03", "U+2D04", "U+2D05",
    "U+2D06", "U+2D07", "U+2D08", "U+2D09", "U+2D0A", "U+2D0B", "U+2D0C",
    "U+2D0D", "U+2D0E", "U+2D0F", "U+2D10", "U+2D11", "U+2D12", "U+2D13",
    "U+2D14", "U+2D15", "U+2D16", "U+2D17", "U+2D18", "U+2D19", "U+2D1A",
    "U+2D1B", "U+2D1C", "U+2D1D", "U+2D1E", "U+2D1F", "U+2D20", "U+2D21",
    "U+2D22", "U+2D23", "U+2D24", "U+2D25", "U+2D27", "U+2D2D", "U+AB70",
    "U+AB71", "U+AB72", "U+AB73", "U+AB74", "U+AB75", "U+AB76", "U+AB77",
    "U+AB78", "U+AB79", "U+AB7A", "U+AB7B", "U+AB7C", "U+AB7D", "U+AB7E",
    "U+AB7F", "U+AB80", "U+AB81", "U+AB82", "U+AB83", "U+AB84", "U+AB85",
    "U+AB86", "U+AB87", "U+AB88", "U+AB89", "U+AB8A", "U+AB8B", "U+AB8C",
    "U+AB8D", "U+AB8E", "U+AB8F", "U+AB90", "U+AB91", "U+AB92", "U+AB93",
    "U+AB94", "U+AB95", "U+AB96", "U+AB97", "U+AB98", "U+AB99", "U+AB9A",
    "U+AB9B", "U+AB9C", "U+AB9D", "U+AB9E", "U+AB9F", "U+ABA0", "U+ABA1",
    "U+ABA2", "U+ABA3", "U+ABA4", "U+ABA5", "U+ABA6", "U+ABA7", "U+ABA8",
    "U+ABA9", "U+ABAA", "U+ABAB", "U+ABAC", "U+ABAD", "U+ABAE", "U+ABAF",
    "U+ABB0", "U+ABB1", "U+ABB2", "U+ABB3", "U+ABB4", "U+ABB5", "U+ABB6",
    "U+ABB7", "U+ABB8", "U+ABB9", "U+ABBA", "U+ABBB", "U+ABBC", "U+ABBD",
    "U+ABBE", "U+ABBF", "U+13F8", "U+13F9", "U+13FA", "U+13FB", "U+13FC",
    "U+13FD", "U+10D0", "U+10D1", "U+10D2", "U+10D3", "U+10D4", "U+10D5",
    "U+10D6", "U+10D7", "U+10D8", "U+10D9", "U+10DA", "U+10DB", "U+10DC",
    "U+10DD", "U+10DE", "U+10DF", "U+10E0", "U+10E1", "U+10E2", "U+10E3",
    "U+10E4", "U+10E5", "U+10E6", "U+10E7", "U+10E8", "U+10E9", "U+10EA",
    "U+10EB", "U+10EC", "U+10ED", "U+10EE", "U+10EF", "U+10F0", "U+10F1",
    "U+10F2", "U+10F3", "U+10F4", "U+10F5", "U+10F6", "U+10F7", "U+10F8",
    "U+10F9", "U+10FA", "U+10FD", "U+10FE", "U+10FF", "U+1E01", "U+1E03",
    "U+1E05", "U+1E07", "U+1E09", "U+1E0B", "U+1E0D", "U+1E0F", "U+1E11",
    "U+1E13", "U+1E15", "U+1E17", "U+1E19", "U+1E1B", "U+1E1D", "U+1E1F",
    "U+1E21", "U+1E23", "U+1E25", "U+1E27", "U+1E29", "U+1E2B", "U+1E2D",
    "U+1E2F", "U+1E31", "U+1E33", "U+1E35", "U+1E37", "U+1E39", "U+1E3B",
    "U+1E3D", "U+1E3F", "U+1E41", "U+1E43", "U+1E45", "U+1E47", "U+1E49",
    "U+1E4B", "U+1E4D", "U+1E4F", "U+1E51", "U+1E53", "U+1E55", "U+1E57",
    "U+1E59", "U+1E5B", "U+1E5D", "U+1E5F", "U+1E61", "U+1E63", "U+1E65",
    "U+1E67", "U+1E69", "U+1E6B", "U+1E6D", "U+1E6F", "U+1E71", "U+1E73",
    "U+1E75", "U+1E77", "U+1E79", "U+1E7B", "U+1E7D", "U+1E7F", "U+1E81",
    "U+1E83", "U+1E85", "U+1E87", "U+1E89", "U+1E8B", "U+1E8D", "U+1E8F",
    "U+1E91", "U+1E93", "U+1E95", "U+00DF", "U+1EA1", "U+1EA3", "U+1EA5",
    "U+1EA7", "U+1EA9", "U+1EAB", "U+1EAD", "U+1EAF", "U+1EB1", "U+1EB3",
    "U+1EB5", "U+1EB7", "U+1EB9", "U+1EBB", "U+1EBD", "U+1EBF", "U+1EC1",
    "U+1EC3", "U+1EC5", "U+1EC7", "U+1EC9", "U+1ECB", "U+1ECD", "U+1ECF",
    "U+1ED1", "U+1ED3", "U+1ED5", "U+1ED7", "U+1ED9", "U+1EDB", "U+1EDD",
    "U+1EDF", "U+1EE1", "U+1EE3", "U+1EE5", "U+1EE7", "U+1EE9", "U+1EEB",
    "U+1EED", "U+1EEF", "U+1EF1", "U+1EF3", "U+1EF5", "U+1EF7", "U+1EF9",
    "U+1EFB", "U+1EFD", "U+1EFF", "U+1F00", "U+1F01", "U+1F02", "U+1F03",
    "U+1F04", "U+1F05", "U+1F06", "U+1F07", "U+1F10", "U+1F11", "U+1F12",
    "U+1F13", "U+1F14", "U+1F15", "U+1F20", "U+1F21", "U+1F22", "U+1F23",
    "U+1F24", "U+1F25", "U+1F26", "U+1F27", "U+1F30", "U+1F31", "U+1F32",
    "U+1F33", "U+1F34", "U+1F35", "U+1F36", "U+1F37", "U+1F40", "U+1F41",
    "U+1F42", "U+1F43", "U+1F44", "U+1F45", "U+1F51", "U+1F53", "U+1F55",
    "U+1F57", "U+1F60", "U+1F61", "U+1F62", "U+1F63", "U+1F64", "U+1F65",
    "U+1F66", "U+1F67", "U+1F80", "U+1F81", "U+1F82", "U+1F83", "U+1F84",
    "U+1F85", "U+1F86", "U+1F87", "U+1F90", "U+1F91", "U+1F92", "U+1F93",
    "U+1F94", "U+1F95", "U+1F96", "U+1F97", "U+1FA0", "U+1FA1", "U+1FA2",
    "U+1FA3", "U+1FA4", "U+1FA5", "U+1FA6", "U+1FA7", "U+1FB0", "U+1FB1",
    "U+1F70", "U+1F71", "U+1FB3", "U+1F72", "U+1F73", "U+1F74", "U+1F75",
    "U+1FC3", "U+1FD0", "U+1FD1", "U+1F76", "U+1F77", "U+1FE0", "U+1FE1",
    "U+1F7A", "U+1F7B", "U+1FE5", "U+1F78", "U+1F79", "U+1F7C", "U+1F7D",
    "U+1FF3", "U+03C9", "k", "U+00E5", "U+214E", "U+2170", "U+2171", "U+2172",
    "U+2173", "U+2174", "U+2175", "U+2176", "U+2177", "U+2178", "U+2179",
    "U+217A", "U+217B", "U+217C", "U+217D", "U+217E", "U+217F", "U+2184",
    "U+24D0", "U+24D1", "U+24D2", "U+24D3", "U+24D4", "U+24D5", "U+24D6",
    "U+24D7", "U+24D8", "U+24D9", "U+24DA", "U+24DB", "U+24DC", "U+24DD",
    "U+24DE", "U+24DF", "U+24E0", "U+24E1", "U+24E2", "U+24E3", "U+24E4",
    "U+24E5", "U+24E6", "U+24E7", "U+24E8", "U+24E9", "U+2C30", "U+2C31",
    "U+2C32", "U+2C33", "U+2C34", "U+2C35", "U+2C36", "U+2C37", "U+2C38",
    "U+2C39", "U+2C3A", "U+2C3B", "U+2C3C", "U+2C3D", "U+2C3E", "U+2C3F",
    "U+2C40", "U+2C41", "U+2C42", "U+2C43", "U+2C44", "U+2C45", "U+2C46",
    "U+2C47", "U+2C48", "U+2C49", "U+2C4A", "U+2C4B", "U+2C4C", "U+2C4D",
    "U+2C4E", "U+2C4F", "U+2C50", "U+2C51", "U+2C52", "U+2C53", "U+2C54",
    "U+2C55", "U+2C56", "U+2C57", "U+2C58", "U+2C59", "U+2C5A", "U+2C5B",
    "U+2C5C", "U+2C5D", "U+2C5E", "U+2C61", "U+026B", "U+1D7D", "U+027D",
    "U+2C68", "U+2C6A", "U+2C6C", "U+0251", "U+0271", "U+0250", "U+0252",
    "U+2C73", "U+2C76", "U+023F", "U+0240", "U+2C81", "U+2C83", "U+2C85",
    "U+2C87", "U+2C89", "U+2C8B", "U+2C8D", "U+2C8F", "U+2C91", "U+2C93",
    "U+2C95", "U+2C97", "U+2C99", "U+2C9B", "U+2C9D", "U+2C9F", "U+2CA1",
    "U+2CA3", "U+2CA5", "U+2CA7", "U+2CA9", "U+2CAB", "U+2CAD", "U+2CAF",
    "U+2CB1", "U+2CB3", "U+2CB5", "U+2CB7", "U+2CB9", "U+2CBB", "U+2CBD",
    "U+2CBF", "U+2CC1", "U+2CC3", "U+2CC5", "U+2CC7", "U+2CC9", "U+2CCB",
    "U+2CCD", "U+2CCF", "U+2CD1", "U+2CD3", "U+2CD5", "U+2CD7", "U+2CD9",
    "U+2CDB", "U+2CDD", "U+2CDF", "U+2CE1", "U+2CE3", "U+2CEC", "U+2CEE",
    "U+2CF3", "U+A641", "U+A643", "U+A645", "U+A647", "U+A649", "U+A64B",
    "U+A64D", "U+A64F", "U+A651", "U+A653", "U+A655", "U+A657", "U+A659",
    "U+A65B", "U+A65D", "U+A65F", "U+A661", "U+A663", "U+A665", "U+A667",
    "U+A669", "U+A66B", "U+A66D", "U+A681", "U+A683", "U+A685", "U+A687",
    "U+A689", "U+A68B", "U+A68D", "U+A68F", "U+A691", "U+A693", "U+A695",
    "U+A697", "U+A699", "U+A69B", "U+A723", "U+A725", "U+A727", "U+A729",
    "U+A72B", "U+A72D", "U+A72F", "U+A733", "U+A735", "U+A737", "U+A739",
    "U+A73B", "U+A73D", "U+A73F", "U+A741", "U+A743", "U+A745", "U+A747",
    "U+A749", "U+A74B", "U+A74D", "U+A74F", "U+A751", "U+A753", "U+A755",
    "U+A757", "U+A759", "U+A75B", "U+A75D", "U+A75F", "U+A761", "U+A763",
    "U+A765", "U+A767", "U+A769", "U+A76B", "U+A76D", "U+A76F", "U+A77A",
    "U+A77C", "U+1D79", "U+A77F", "U+A781", "U+A783", "U+A785", "U+A787",
    "U+A78C", "U+0265", "U+A791", "U+A793", "U+A797", "U+A799", "U+A79B",
    "U+A79D", "U+A79F", "U+A7A1", "U+A7A3", "U+A7A5", "U+A7A7", "U+A7A9",
    "U+0266", "U+025C", "U+0261", "U+026C", "U+026A", "U+029E", "U+0287",
    "U+029D", "U+AB53", "U+A7B5", "U+A7B7", "U+A7B9", "U+A7BB", "U+A7BD",
    "U+A7BF", "U+A7C3", "U+A794", "U+0282", "U+1D8E", "U+A7C8", "U+A7CA",
    "U+A7F6", "U+FF41", "U+FF42", "U+FF43", "U+FF44", "U+FF45", "U+FF46",
    "U+FF47", "U+FF48", "U+FF49", "U+FF4A", "U+FF4B", "U+FF4C", "U+FF4D",
    "U+FF4E", "U+FF4F", "U+FF50", "U+FF51", "U+FF52", "U+FF53", "U+FF54",
    "U+FF55", "U+FF56", "U+FF57", "U+FF58", "U+FF59", "U+FF5A", "U+10428",
    "U+10429", "U+1042A", "U+1042B", "U+1042C", "U+1042D", "U+1042E",
    "U+1042F", "U+10430", "U+10431", "U+10432", "U+10433", "U+10434",
    "U+10435", "U+10436", "U+10437", "U+10438", "U+10439", "U+1043A",
    "U+1043B", "U+1043C", "U+1043D", "U+1043E", "U+1043F", "U+10440",
    "U+10441", "U+10442", "U+10443", "U+10444", "U+10445", "U+10446",
    "U+10447", "U+10448", "U+10449", "U+1044A", "U+1044B", "U+1044C",
    "U+1044D", "U+1044E", "U+1044F", "U+104D8", "U+104D9", "U+104DA",
    "U+104DB", "U+104DC", "U+104DD", "U+104DE", "U+104DF", "U+104E0",
    "U+104E1", "U+104E2", "U+104E3", "U+104E4", "U+104E5", "U+104E6",
    "U+104E7", "U+104E8", "U+104E9", "U+104EA", "U+104EB", "U+104EC",
    "U+104ED", "U+104EE", "U+104EF", "U+104F0", "U+104F1", "U+104F2",
    "U+104F3", "U+104F4", "U+104F5", "U+104F6", "U+104F7", "U+104F8",
    "U+104F9", "U+104FA", "U+104FB", "U+10CC0", "U+10CC1", "U+10CC2",
    "U+10CC3", "U+10CC4", "U+10CC5", "U+10CC6", "U+10CC7", "U+10CC8",
    "U+10CC9", "U+10CCA", "U+10CCB", "U+10CCC", "U+10CCD", "U+10CCE",
    "U+10CCF", "U+10CD0", "U+10CD1", "U+10CD2", "U+10CD3", "U+10CD4",
    "U+10CD5", "U+10CD6", "U+10CD7", "U+10CD8", "U+10CD9", "U+10CDA",
    "U+10CDB", "U+10CDC", "U+10CDD", "U+10CDE", "U+10CDF", "U+10CE0",
    "U+10CE1", "U+10CE2", "U+10CE3", "U+10CE4", "U+10CE5", "U+10CE6",
    "U+10CE7", "U+10CE8", "U+10CE9", "U+10CEA", "U+10CEB", "U+10CEC",
    "U+10CED", "U+10CEE", "U+10CEF", "U+10CF0", "U+10CF1", "U+10CF2",
    "U+118C0", "U+118C1", "U+118C2", "U+118C3", "U+118C4", "U+118C5",
    "U+118C6", "U+118C7", "U+118C8", "U+118C9", "U+118CA", "U+118CB",
    "U+118CC", "U+118CD", "U+118CE", "U+118CF", "U+118D0", "U+118D1",
    "U+118D2", "U+118D3", "U+118D4", "U+118D5", "U+118D6", "U+118D7",
    "U+118D8", "U+118D9", "U+118DA", "U+118DB", "U+118DC", "U+118DD",
    "U+118DE", "U+118DF", "U+16E60", "U+16E61", "U+16E62", "U+16E63",
    "U+16E64", "U+16E65", "U+16E66", "U+16E67", "U+16E68", "U+16E69",
    "U+16E6A", "U+16E6B", "U+16E6C", "U+16E6D", "U+16E6E", "U+16E6F",
    "U+16E70", "U+16E71", "U+16E72", "U+16E73", "U+16E74", "U+16E75",
    "U+16E76", "U+16E77", "U+16E78", "U+16E79", "U+16E7A", "U+16E7B",
    "U+16E7C", "U+16E7D", "U+16E7E", "U+16E7F", "U+1E922", "U+1E923",
    "U+1E924", "U+1E925", "U+1E926", "U+1E927", "U+1E928", "U+1E929",
    "U+1E92A", "U+1E92B", "U+1E92C", "U+1E92D", "U+1E92E", "U+1E92F",
    "U+1E930", "U+1E931", "U+1E932", "U+1E933", "U+1E934", "U+1E935",
    "U+1E936", "U+1E937", "U+1E938", "U+1E939", "U+1E93A", "U+1E93B",
    "U+1E93C", "U+1E93D", "U+1E93E", "U+1E93F", "U+1E940", "U+1E941",
    "U+1E942", "U+1E943">>

CasedUppers == Uppers \o UnicodeUppers

CasedLowers == Lowers \o UnicodeLowers

\* The lower case of each character that has one.
LowerCase ==
  [ch \in {CasedUppers[i] : i \in DOMAIN CasedUppers} |->
     CasedLowers[CHOOSE i \in DOMAIN CasedUppers : CasedUppers[i] = ch]]

LowerChar(ch) == IF ch \in DOMAIN LowerCase THEN LowerCase[ch] ELSE ch

\* strings.TrimSpace and strings.ToLower.
RECURSIVE TrimLeft(_)
TrimLeft(s) ==
  IF s # <<>> /\ IsSpace(Head(s)) THEN TrimLeft(Tail(s)) ELSE s

RECURSIVE TrimRight(_)
TrimRight(s) ==
  IF s # <<>> /\ IsSpace(s[Len(s)]) THEN TrimRight(SubSeq(s, 1, Len(s) - 1)) ELSE s

\* A TrimSpace that trims nothing but the delimiter.
TrimDelimiter(s) == SubSeq(s, 1, Len(s) - 1)

TrimSpace(s) == TrimRight(TrimLeft(s))

ToLower(s) == [i \in 1..Len(s) |-> LowerChar(s[i])]

\* The input of the switch for a line that was read.
InputOf(rawInput) == ToLower(TrimSpace(rawInput))

\* What the calls of GenerateDataMigrationScripts leave alone.
notAr ==
  <<hubSide, genVars, hostsRes, cfgVars, stepVars, mkVars, topoVars, tmpVars,
    codecVars, modeVars>>

\* GenerateDataMigrationScripts when the prompt returned ret and left current
\* in the output directory: with nil the call goes on to GetDatabases and the
\* generation; with Skip it returns nil, with any other error that error.
AfterPrompt(ret, current) ==
  /\ arRet' = ret
  /\ arCurrent' = current
  /\ arGen' = FALSE
  /\ arPc' = IF ret = "nil" THEN "generate" ELSE "idle"
  /\ arOut' = CASE ret = "nil" -> "none"
                [] ret = "Skip" -> "nil"
                [] OTHER -> ret

\* The calls that can fail before the prompt is called (greenplum.Version,
\* the choice of the seed scripts, the connection, MkdirAll of the output
\* directory), and those of the prompt that can fail before its loop
\* (ReadDirFS, and Info of the entry "current").
BeforePrompt == {"Version", "seed scripts", "bootstrapConnection", "MkdirAll"}

BeforeLoop(current) ==
  {"ReadDirFS"} \cup IF current.exists THEN {"Info"} ELSE {}

\* GenerateDataMigrationScripts up to the first prompt: a call that fails
\* returns its error and nothing else happens; the prompt returns nil at once
\* when there is no "current".
GenerateBegin(nonInteractive) ==
  /\ arPc = "idle"
  /\ arFlag' = nonInteractive
  /\ arLine' = <<>>
  /\ arReads' = 0
  /\ \E failed \in BeforePrompt \cup BeforeLoop(arCurrent) \cup {"none"} :
       CASE failed \in BeforePrompt ->
              /\ arPc' = "idle"
              /\ arRet' = "none"
              /\ arGen' = FALSE
              /\ arOut' = failed
              /\ UNCHANGED arCurrent
         [] failed \in BeforeLoop(arCurrent) -> AfterPrompt(failed, arCurrent)
         [] failed = "none" /\ ~arCurrent.exists -> AfterPrompt("nil", arCurrent)
         [] OTHER ->
              /\ arPc' = "prompt"
              /\ arRet' = "none"
              /\ arGen' = FALSE
              /\ arOut' = "none"
              /\ UNCHANGED arCurrent
  /\ UNCHANGED <<notAr, arNow, arArchive>>

\* An archive choice that moves "current" whatever archive holds.
ArchiveAnyway ==
  /\ arArchive' = arArchive \cup {arCurrent.modTime}
  /\ AfterPrompt("nil", NoCurrent)

\* The calls of case "a" that can fail: upgrade.PathExist of the archive
\* directory, MkdirAll of "archive" and utils.Move.
ArchiveErrors == {"PathExist", "make directory", "move directory"}

\* case "a": the error of PathExist; Skip when the archive directory is
\* there; else "archive" is made and "current" is moved, and the error of
\* either is returned. A Move that fails leaves "current", and may have
\* left a part of it under archive.
ArchiveChoice ==
  \E failed \in ArchiveErrors \cup {"none"} :
    CASE failed = "PathExist" ->
           /\ AfterPrompt(failed, arCurrent)
           /\ UNCHANGED arArchive
      [] failed # "PathExist" /\ arCurrent.modTime \in arArchive ->
           /\ AfterPrompt("Skip", arCurrent)
           /\ UNCHANGED arArchive
      [] failed = "make directory" /\ arCurrent.modTime \notin arArchive ->
           /\ AfterPrompt(failed, arCurrent)
           /\ UNCHANGED arArchive
      [] failed = "move directory" /\ arCurrent.modTime \notin arArchive ->
           /\ AfterPrompt(failed, arCurrent)
           /\ \E part \in SUBSET {arCurrent.modTime} :
                arArchive' = arArchive \cup part
      [] OTHER ->
           /\ arArchive' = arArchive \cup {arCurrent.modTime}
           /\ AfterPrompt("nil", NoCurrent)

\* The switch on the input.
Switch(input) ==
  CASE input = <<"a">> -> ArchiveChoice
    [] input = <<"c">> -> AfterPrompt("Skip", arCurrent) /\ UNCHANGED arArchive
    [] input = <<"q">> -> AfterPrompt("Quit", arCurrent) /\ UNCHANGED arArchive
    [] OTHER -> UNCHANGED <<arPc, arRet, arGen, arOut, arCurrent, arArchive>>

\* One turn of the loop without a read: the input is "a".
PromptNonInteractive ==
  /\ arPc = "prompt"
  /\ arFlag
  /\ Switch(<<"a">>)
  /\ UNCHANGED <<notAr, arNow, arFlag, arLine, arReads>>

\* One turn of the loop with a read of a line.
PromptRead(line) ==
  /\ arPc = "prompt"
  /\ ~arFlag
  /\ arReads < MaxReads
  /\ arReads' = arReads + 1
  /\ arLine' = ReadString(line)
  /\ Switch(InputOf(ReadString(line)))
  /\ UNCHANGED <<notAr, arNow, arFlag>>

\* One turn of the loop with a read that fails: standard input has ended.
PromptEOF ==
  /\ arPc = "prompt"
  /\ ~arFlag
  /\ arReads < MaxReads
  /\ arReads' = arReads + 1
  /\ arLine' = <<>>
  /\ AfterPrompt("EOF", arCurrent)
  /\ UNCHANGED <<notAr, arNow, arFlag, arArchive>>

\* What follows the nil of the prompt: GetDatabases fails and no goroutine is
\* started; or the goroutines run the seed scripts of every database, and
\* WriteFile under "current" is reached by those that give output (written)
\* and the call returns nil, the errors of the goroutines, or the error of
\* GetLogDir. The goroutines themselves are the subject of SpecGen.
GenerateOutcomes ==
  {[ran |-> FALSE, written |-> FALSE, ret |-> "error"]}
    \cup [ran : {TRUE}, written : BOOLEAN, ret : {"nil", "error"}]

\* The rest of GenerateDataMigrationScripts after the nil of the prompt.
GenerateScripts ==
  /\ arPc = "generate"
  /\ arPc' = "idle"
  /\ \E o \in GenerateOutcomes :
       /\ arGen' = o.ran
       /\ arOut' = o.ret
       /\ arCurrent' = IF o.written THEN [exists |-> TRUE, modTime |-> arNow]
                       ELSE arCurrent
  /\ UNCHANGED <<notAr, arNow, arArchive, arFlag, arRet, arLine, arReads>>

\* A minute passes.
Tick ==
  /\ arNow < MaxTime
  /\ arNow' = arNow + 1
  /\ UNCHANGED <<notAr, arCurrent, arArchive, arFlag, arPc, arRet, arLine,
                 arReads, arGen, arOut>>

InitArchive ==
  /\ New(MockCluster)
  /\ reachable = [h \in AllHosts |-> FALSE]

NextArchive ==
  \/ \E nonInteractive \in BOOLEAN : GenerateBegin(nonInteractive)
  \/ PromptNonInteractive
  \/ \E line \in Lines : PromptRead(line)
  \/ PromptEOF
  \/ GenerateScripts
  \/ Tick

SpecArchive == InitArchive /\ [][NextArchive]_vars

\* The directories of the output directory.
arDirs == <<arCurrent, arArchive>>

\* The two characters that are the answer ch of the prompt: a, c and q are
\* the lower case of their capital and of no other character.
Spellings(ch) ==
  CASE ch = "a" -> {"a", "A"}
    [] ch = "c" -> {"c", "C"}
    [] ch = "q" -> {"q", "Q"}

\* The line answers the prompt with ch: ch in either case, with nothing but
\* white space around it.
IsAnswer(rawInput, ch) ==
  \E i \in 1..Len(rawInput) :
    /\ rawInput[i] \in Spellings(ch)
    /\ \A j \in 1..Len(rawInput) : j # i => IsSpace(rawInput[j])

\* A step of the prompt that reads a line.
ReadStep == arPc = "prompt" /\ arReads' = arReads + 1 /\ arLine' # <<>>

\* A step of the prompt takes the archive choice: one of the calls of case
\* "a" fails and its error is returned with "current" in its place; or Skip
\* with nothing moved when the archive directory is there; or "current" is
\* moved there.
TakesArchiveChoice ==
  CASE arRet' \in ArchiveErrors -> arPc' = "idle" /\ arCurrent' = arCurrent
    [] arCurrent.modTime \in arArchive ->
         arPc' = "idle" /\ arRet' = "Skip" /\ arDirs' = arDirs
    [] OTHER ->
         /\ arPc' = "generate"
         /\ arRet' = "nil"
         /\ arArchive' = arArchive \cup {arCurrent.modTime}
         /\ arCurrent' = NoCurrent

\* A step that begins a call of GenerateDataMigrationScripts, and one in
\* which the prompt was called and has read the output directory.
BeginsCall == arPc = "idle" /\ arNow' = arNow

ListsDirectory == BeginsCall /\ arRet' \notin {"none", "ReadDirFS"}

\* Claim C36: a prompt that finds no "current" in the output directory
\* returns nil without prompting, and the loop is entered only with a
\* "current"; a non-interactive call never reads and takes the archive
\* choice; at an interactive prompt c returns Skip and q returns Quit and no
\* directory changes; any line that is none of a, c and q prompts again, and
\* neither returns nor changes a directory.
C36_PromptStateMachine ==
  /\ [](arPc = "prompt" => arCurrent.exists)
  /\ [](arFlag => arReads = 0)
  /\ [][BeginsCall => arReads' = 0 /\ arDirs' = arDirs]_vars
  /\ [][ListsDirectory /\ ~arCurrent.exists
          => arRet' = "nil" /\ arPc' = "generate"]_vars
  /\ [][arPc = "prompt" /\ arFlag /\ arNow' = arNow => TakesArchiveChoice]_vars
  /\ [][ReadStep /\ IsAnswer(arLine', "c")
          => arRet' = "Skip" /\ arPc' = "idle" /\ arDirs' = arDirs]_vars
  /\ [][ReadStep /\ IsAnswer(arLine', "q")
          => arRet' = "Quit" /\ arPc' = "idle" /\ arDirs' = arDirs]_vars
  /\ [][ReadStep /\ (\A ch \in {"a", "c", "q"} : ~IsAnswer(arLine', ch))
          => arRet' = "none" /\ arPc' = "prompt" /\ arDirs' = arDirs]_vars

\* The operator typed a line that is no choice, was prompted again and quit
\* with a form feed and Q; a "current" is there and an archive directory is,
\* too.
C36_Witness ==
  /\ arRet = "Quit"
  /\ arReads = 2
  /\ arLine = <<"\f", "Q", "\n">>
  /\ arCurrent.exists
  /\ arArchive # {}

\* A step of the prompt in which the archive choice is taken: the call is
\* non-interactive, or the operator answers a.
ChoosesArchive ==
  /\ arPc = "prompt"
  /\ \/ arFlag /\ arNow' = arNow
     \/ ReadStep /\ IsAnswer(arLine', "a")

\* A call of GenerateDataMigrationScripts has returned.
GenerateReturned == arPc = "idle" /\ arOut # "none"

\* The archive choice was taken in the call that returned.
ChoseArchive == arFlag \/ IsAnswer(arLine, "a")

\* Claim C37: when the archive choice is taken and archive holds no
\* directory named by the minute of current's modification time, current is
\* moved there and the call goes on to generate the scripts again, unless
\* making "archive" or the move fails; when archive holds that directory
\* nothing is moved, the call returns nil and the scripts are not generated
\* again.  A call that returns without having started the generation is one
\* where the operator chose continue or quit, where the archive choice found
\* the archive directory, or where a call failed: one before the prompt, the
\* reading of the output directory, the read of the choice, one of the
\* archive choice, or GetDatabases.
C37_ArchiveRegenerates ==
  /\ [][ChoosesArchive =>
          CASE arRet' = "PathExist" \/ arCurrent.modTime \in arArchive ->
                 /\ arPc' = "idle"
                 /\ arRet' \in {"PathExist", "Skip"}
                 /\ arOut' = IF arRet' = "Skip" THEN "nil" ELSE arRet'
                 /\ ~arGen'
                 /\ arDirs' = arDirs
            [] arRet' \in {"make directory", "move directory"} ->
                 /\ arPc' = "idle"
                 /\ arOut' = arRet'
                 /\ ~arGen'
                 /\ arCurrent' = arCurrent
            [] OTHER ->
                 /\ arPc' = "generate"
                 /\ arArchive' = arArchive \cup {arCurrent.modTime}
                 /\ arCurrent' = NoCurrent]_vars
  /\ [](GenerateReturned /\ ~arGen =>
          \/ arRet = "Skip" /\ IsAnswer(arLine, "c")
          \/ arRet = "Quit" /\ IsAnswer(arLine, "q")
          \/ arRet = "EOF" /\ ~arFlag /\ arLine = <<>>
          \/ arRet = "nil" /\ arOut = "error"
          \/ arRet = "none" /\ arOut \in BeforePrompt
          \/ arRet \in BeforeLoop(arCurrent) /\ arReads = 0
          \/ arRet \in ArchiveErrors /\ ChoseArchive /\ arCurrent.exists
          \/ /\ arRet = "Skip"
             /\ ChoseArchive
             /\ arCurrent.exists
             /\ arCurrent.modTime \in arArchive)

\* A non-interactive call found a current of a minute that archive holds
\* already, and returned without moving it and without generating.
C37_Witness ==
  /\ GenerateReturned
  /\ arFlag
  /\ arRet = "Skip"
  /\ ~arGen
  /\ arCurrent.exists
  /\ arCurrent.modTime \in arArchive

\* The claim as it is written: an archive choice none of whose calls fails
\* always moves current under archive and generates the scripts again.
C37_ArchiveAlwaysRegenerates ==
  [][ChoosesArchive /\ arRet' \notin ArchiveErrors
       => arPc' = "generate" /\ arCurrent' = NoCurrent]_vars

\* Claim C38: in a run with --non-interactive, initialize and revert ask
\* nothing and read nothing from standard input; the body of no substep that
\* generates or applies data migration scripts runs; and the call of such a
\* substep changes nothing but the place of the run, which goes on with the
\* substep that follows.
C38_NonInteractive ==
  /\ [](stFlags.nonInteractive => ~stAsked)
  /\ [](stFlags.nonInteractive => \A i \in stExec : Program[i].kind # "cli_if")
  /\ [][stFlags.nonInteractive /\ RunCLISubstepConditionally
          => /\ stPos' = stPos + 1
             /\ UNCHANGED <<stExec, stErr, stOut, store, stateDir, stAsked>>]_vars

\* A run of initialize with --non-interactive has passed the three substeps
\* of the data migration scripts and has run its prompt substep and the
\* substeps after it, with no error; a run of revert with --non-interactive
\* has passed its scripts substep and deleted the state directory.
C38_Witness ==
  /\ stFlags.nonInteractive
  /\ ~stAsked
  /\ stErr = ""
  /\ \/ /\ stCmd = "initialize"
        /\ Ran("prompt")
        /\ Ran("start_hub")
        /\ ~Ran("generate_data_migration_scripts")
     \/ /\ stCmd = "revert"
        /\ Ran("delete_master_statedir")
        /\ ~Ran("execute_revert_data_migration_scripts")

(***************************************************************************)
(* parseMode, the parser of the flag --mode.  The input is a string of     *)
(* characters; idl.Mode_value and idl.Mode_name are the maps that the      *)
(* protocol buffer compiler generates from the enum Mode of common.proto,  *)
(* one entry for each of its three values.                                 *)
(***************************************************************************)

\* The names of the enum Mode as characters.
UnknownModeName == <<"u", "n", "k", "n", "o", "w", "n", "_", "m", "o", "d", "e">>

CopyName == <<"c", "o", "p", "y">>

LinkName == <<"l", "i", "n", "k">>

\* idl.Mode_name: the name of each value of the enum.
Mode_name == <<CopyName, LinkName>> @@ (0 :> UnknownModeName)

\* idl.Mode_value: the value of each name of the enum.
Mode_value == {<<Mode_name[m], m>> : m \in DOMAIN Mode_name}

\* idl.Mode_unknown_mode.
Mode_unknown_mode == 0

\* parseMode(input): the Mode and the error.
parseMode(input) ==
  LET name == ToLower(TrimSpace(input))
  IN  IF \E e \in Mode_value : e[1] = name
      THEN [mode |-> (CHOOSE e \in Mode_value : e[1] = name)[2], err |-> ""]
      ELSE [mode |-> Mode_unknown_mode, err |-> "Invalid input"]

\* unicode.ToUpper of one character, and a string with its first character
\* or all of its characters in upper case.
UpperChar(ch) ==
  IF \E i \in DOMAIN Lowers : Lowers[i] = ch
  THEN Uppers[CHOOSE i \in DOMAIN Lowers : Lowers[i] = ch]
  ELSE ch

ToUpper(s) == [i \in 1..Len(s) |-> UpperChar(s[i])]

Title(s) == [i \in 1..Len(s) |-> IF i = 1 THEN UpperChar(s[i]) ELSE s[i]]

\* The values of --mode that are parsed: words in three spellings, with and
\* without white space around them.
ModeWords ==
  {CopyName, LinkName, UnknownModeName, <<>>, <<"m", "o", "v", "e">>,
   <<"c", "o", "p">>, <<"l", "i", "n", "k", "s">>, <<"c", "o", " ", "p", "y">>,
   <<"1">>, <<"l", "i", "n", "U+212A">>, <<"c", "U+00D6", "p", "y">>}

ModePads == {<<>>, <<" ">>, <<"\n">>, <<"\t", " ">>, <<"\f">>, <<"U+00A0">>}

ModeInputs ==
  {l \o w \o r : l \in ModePads, r \in ModePads,
                 w \in ModeWords \cup {ToUpper(x) : x \in ModeWords}
                                 \cup {Title(x) : x \in ModeWords}}

\* The flag is parsed.
CallParseMode ==
  /\ ~modeRes.set
  /\ modeRes' = [set |-> TRUE, mode |-> parseMode(modeIn).mode,
                 err |-> parseMode(modeIn).err]
  /\ UNCHANGED <<hubSide, genVars, hostsRes, cfgVars, stepVars, mkVars, topoVars,
                 tmpVars, codecVars, arVars, modeIn>>

InitMode ==
  /\ NewServer(MockCluster)
  /\ reachable = [h \in AllHosts |-> FALSE]
  /\ NoCommand
  /\ NoTopo
  /\ NoTmp
  /\ modeIn \in ModeInputs
  /\ modeRes = NoMode

NextMode == CallParseMode

SpecMode == InitMode /\ [][NextMode]_vars

\* The input, trimmed and in lower case, is copy or link.
IsModeChoice == ToLower(TrimSpace(modeIn)) \in {CopyName, LinkName}

\* Claim C39: parseMode returns a nil error iff the trimmed, lower-cased
\* input is copy or link, together with that Mode; for every other input,
\* unknown_mode and the empty string among them, it returns Mode_unknown_mode
\* and an error.
C39_ParseMode ==
  modeRes.set =>
    /\ modeRes.err = "" <=> IsModeChoice
    /\ IsModeChoice => Mode_name[modeRes.mode] = ToLower(TrimSpace(modeIn))
    /\ ~IsModeChoice => modeRes.mode = Mode_unknown_mode /\ modeRes.err # ""

\* Claim C40: AgentHosts returns the hostnames in a fixed order, that of their
\* first occurrence among the selected segments: a call on the cluster that
\* an earlier call was made on returns the hosts in the order the earlier
\* call returned them.
C40_SameOrder ==
  [][hostsRes.set /\ hostsRes'.set => hostsRes'.hosts = hostsRes.hosts]_vars

====
